---- MODULE Spec2Model ----
(***************************************************************************)
(* Buffer pool manager, LRU replacer and B+ tree index of absoto/primer    *)
(* (BusTub).  The buffer pool operations are operators over a record `b'   *)
(* that holds the fields of BufferPoolManager, the disk behind it and the  *)
(* log of the disk calls of the running operation; the B+ tree operations  *)
(* are built from them exactly as the C++ calls them.                      *)
(***************************************************************************)
EXTENDS Integers, Sequences, FiniteSets, TLC

VARIABLES pages, page_table, free_list, replacer, disk, next_page_id,
          root_page_id, leaf_max_size, internal_max_size,
          status, kv, hist, nops,
          latch, mtx, thr, born, gone

vars == <<pages, page_table, free_list, replacer, disk, next_page_id,
          root_page_id, leaf_max_size, internal_max_size,
          status, kv, hist, nops, latch, mtx, thr, born, gone>>

(* ------------------------------ bounds -------------------------------- *)
\* frames of the pool in the buffer-pool specification
PoolSize == 2
\* largest page id the disk hands out in the buffer-pool specification
MaxPageId == 2
\* largest pin count the clients of the buffer-pool specification build up
MaxPin == 2
\* distinct non-zero byte patterns a client writes into a page
MaxByte == 1
\* keys the client of the index uses
MaxKey == 5
\* record slots the client of the index stores per key
MaxValue == 1
\* operations the client of the index issues
MaxOps == 7

\* pool size and maximum sizes the index is constructed with
TreeConfigs ==
  {[pool_size |-> 6, leaf_max_size |-> 2, internal_max_size |-> 4],
   [pool_size |-> 6, leaf_max_size |-> 2, internal_max_size |-> 3],
   [pool_size |-> 4, leaf_max_size |-> 3, internal_max_size |-> 3],
   [pool_size |-> 6, leaf_max_size |-> 4, internal_max_size |-> 3]}

(* --------------------------- program constants ------------------------ *)
INVALID_PAGE_ID == -1
HEADER_PAGE_ID == 0
\* a null Page pointer
nullptr == -1

(* ------------------------------- pages -------------------------------- *)
\* Page::ResetMemory: all bytes of the frame are zero
ZeroPage == [page_type |-> "INVALID_INDEX_PAGE"]
\* bytes written by a client that is not the index; pattern 0 is all zero
RawPage(v) == IF v = 0 THEN ZeroPage ELSE [page_type |-> "RAW", bytes |-> v]

\* a frame as the BufferPoolManager constructor leaves it (Page::Page)
NewFrame == [page_id |-> INVALID_PAGE_ID, pin_count |-> 0, is_dirty |-> FALSE, data |-> ZeroPage]

(* --------------------------- QueueLinkedList -------------------------- *)
\* the list from head->next to tail->prev
QueueAdd(q, frame_id) == <<frame_id>> \o q
QueueContains(q, frame_id) == \E i \in 1..Len(q) : q[i] = frame_id
QueueIsEmpty(q) == Len(q) = 0
\* requires a non-empty queue
QueuePopFrame(q) == q[Len(q)]
QueuePop(q) == SubSeq(q, 1, Len(q) - 1)
QueueRemove(q, frame_id) == SelectSeq(q, LAMBDA x : x # frame_id)

(* ----------------------------- LRUReplacer ---------------------------- *)
\* a replacer is [size, LRUQueue]
NewReplacer == [size |-> 0, LRUQueue |-> <<>>]

\* Victim that pops the head of the queue, the frame unpinned last
ReplacerVictimNewest(r) ==
  IF QueueIsEmpty(r.LRUQueue)
    THEN [ok |-> FALSE, frame_id |-> nullptr, r |-> r]
    ELSE [ok |-> TRUE, frame_id |-> Head(r.LRUQueue),
          r |-> [size |-> r.size - 1, LRUQueue |-> Tail(r.LRUQueue)]]

\* Victim: [ok, frame_id, r]
ReplacerVictim(r) ==
  IF QueueIsEmpty(r.LRUQueue)
    THEN [ok |-> FALSE, frame_id |-> nullptr, r |-> r]
    ELSE [ok |-> TRUE, frame_id |-> QueuePopFrame(r.LRUQueue),
          r |-> [size |-> r.size - 1, LRUQueue |-> QueuePop(r.LRUQueue)]]

ReplacerPin(r, frame_id) ==
  IF ~QueueContains(r.LRUQueue, frame_id)
    THEN r
    ELSE [size |-> r.size - 1, LRUQueue |-> QueueRemove(r.LRUQueue, frame_id)]

\* Unpin that moves a frame that is already a member to the head
ReplacerUnpinPromote(r, frame_id) ==
  IF QueueContains(r.LRUQueue, frame_id)
    THEN [size |-> r.size, LRUQueue |-> QueueAdd(QueueRemove(r.LRUQueue, frame_id), frame_id)]
    ELSE [size |-> r.size + 1, LRUQueue |-> QueueAdd(r.LRUQueue, frame_id)]

ReplacerUnpin(r, frame_id) ==
  IF QueueContains(r.LRUQueue, frame_id)
    THEN r
    ELSE [size |-> r.size + 1, LRUQueue |-> QueueAdd(r.LRUQueue, frame_id)]

ReplacerSize(r) == r.size

(* ------------------------------ page table ---------------------------- *)
\* std::unordered_map::insert keeps an existing entry
TableInsert(pt, page_id, frame_id) ==
  IF page_id \in DOMAIN pt THEN pt ELSE (page_id :> frame_id) @@ pt
TableErase(pt, page_id) == [p \in (DOMAIN pt) \ {page_id} |-> pt[p]]

(* ------------------------------ disk calls ---------------------------- *)
Log(b, e) == [b EXCEPT !.trace = Append(@, e)]
DiskWritePage(b, page_id, data) ==
  Log([b EXCEPT !.disk = (page_id :> data) @@ @], <<"WritePage", page_id, data>>)
\* the file reads as zero bytes where it was never written
DiskReadPage(b, page_id) == IF page_id \in DOMAIN b.disk THEN b.disk[page_id] ELSE ZeroPage
DiskAllocatePage(b) == Log([b EXCEPT !.next_page_id = @ + 1], <<"AllocatePage", b.next_page_id>>)
DiskDeallocatePage(b, page_id) == Log(b, <<"DeallocatePage", page_id>>)

(* --------------------------- BufferPoolManager ------------------------ *)
\* EvictVictim with the page-table entry erased before the write-back
EvictVictimEraseFirst(b, frame_id) ==
  LET page_ == b.pages[frame_id]
      b1 == Log(b, <<"Victim", frame_id, page_.page_id, page_.is_dirty, page_.data>>)
      b2 == Log([b1 EXCEPT !.page_table = TableErase(@, page_.page_id)],
                <<"Erase", page_.page_id>>)
  IN  IF page_.is_dirty THEN DiskWritePage(b2, page_.page_id, page_.data) ELSE b2

\* steps 2 and 3 of FetchPageImpl and the else branch of NewPageImpl: write
\* the victim back when it is dirty, then erase it from the page table
EvictVictim(b, frame_id) ==
  LET page_ == b.pages[frame_id]
      b1 == Log(b, <<"Victim", frame_id, page_.page_id, page_.is_dirty, page_.data>>)
      b2 == IF page_.is_dirty THEN DiskWritePage(b1, page_.page_id, page_.data) ELSE b1
  IN  Log([b2 EXCEPT !.page_table = TableErase(@, page_.page_id)],
          <<"Erase", page_.page_id>>)

\* FindReplacement that asks the replacer before it looks at the free list
FindReplacementVictimFirst(b) ==
  LET v == ReplacerVictim(b.replacer)
  IN  IF v.ok
        THEN [ok |-> TRUE, frame_id |-> v.frame_id,
              b |-> EvictVictim([b EXCEPT !.replacer = v.r], v.frame_id)]
      ELSE IF b.free_list # <<>>
        THEN [ok |-> TRUE, frame_id |-> Head(b.free_list),
              b |-> [b EXCEPT !.free_list = Tail(@)]]
      ELSE [ok |-> FALSE, frame_id |-> nullptr, b |-> b]

\* the frame FetchPageImpl and NewPageImpl replace: [ok, frame_id, b]
FindReplacement(b) ==
  IF b.free_list # <<>>
    THEN [ok |-> TRUE, frame_id |-> Head(b.free_list),
          b |-> [b EXCEPT !.free_list = Tail(@)]]
    ELSE LET v == ReplacerVictim(b.replacer)
         IN  IF ~v.ok
               THEN [ok |-> FALSE, frame_id |-> nullptr, b |-> b]
               ELSE [ok |-> TRUE, frame_id |-> v.frame_id,
                     b |-> EvictVictim([b EXCEPT !.replacer = v.r], v.frame_id)]

\* FetchPageImpl whose hit path forgets replacer_->Pin
FetchPageImplNoPin(b, page_id) ==
  IF page_id \in DOMAIN b.page_table
    THEN LET frame_id == b.page_table[page_id]
         IN  [b EXCEPT !.pages[frame_id].pin_count = @ + 1,
                       !.ret = frame_id]
    ELSE LET v == FindReplacement(b)
         IN  IF ~v.ok
               THEN [b EXCEPT !.ret = nullptr]
               ELSE LET b1 == [v.b EXCEPT !.page_table = TableInsert(@, page_id, v.frame_id)]
                        b2 == Log(b1, <<"ReadPage", page_id>>)
                    IN  [b2 EXCEPT !.pages[v.frame_id] =
                                      [page_id |-> page_id, pin_count |-> 1, is_dirty |-> FALSE,
                                       data |-> DiskReadPage(b1, page_id)],
                                   !.ret = v.frame_id]

\* ret is the frame of the returned Page, or nullptr
FetchPageImpl(b, page_id) ==
  IF page_id \in DOMAIN b.page_table
    THEN LET frame_id == b.page_table[page_id]
         IN  [b EXCEPT !.replacer = ReplacerPin(@, frame_id),
                       !.pages[frame_id].pin_count = @ + 1,
                       !.ret = frame_id]
    ELSE LET v == FindReplacement(b)
         IN  IF ~v.ok
               THEN [b EXCEPT !.ret = nullptr]
               ELSE LET b1 == [v.b EXCEPT !.page_table = TableInsert(@, page_id, v.frame_id)]
                        b2 == Log(b1, <<"ReadPage", page_id>>)
                    IN  [b2 EXCEPT !.pages[v.frame_id] =
                                      [page_id |-> page_id, pin_count |-> 1, is_dirty |-> FALSE,
                                       data |-> DiskReadPage(b1, page_id)],
                                   !.ret = v.frame_id]

\* UnpinPageImpl without the test of pin_count <= 0
UnpinPageImplNoGuard(b, page_id, is_dirty) ==
  IF page_id \notin DOMAIN b.page_table
    THEN [b EXCEPT !.ret = FALSE]
    ELSE LET frame_id == b.page_table[page_id]
             page_ == b.pages[frame_id]
         IN  [b EXCEPT !.pages[frame_id].is_dirty = IF ~page_.is_dirty THEN is_dirty ELSE @,
                       !.pages[frame_id].pin_count = @ - 1,
                       !.replacer = IF page_.pin_count - 1 = 0
                                      THEN ReplacerUnpin(@, frame_id) ELSE @,
                       !.ret = TRUE]

\* UnpinPageImpl that assigns is_dirty whatever the flag was
UnpinPageImplOverwrite(b, page_id, is_dirty) ==
  IF page_id \notin DOMAIN b.page_table
    THEN [b EXCEPT !.ret = FALSE]
    ELSE LET frame_id == b.page_table[page_id]
             page_ == b.pages[frame_id]
         IN  IF page_.pin_count <= 0
               THEN [b EXCEPT !.ret = FALSE]
               ELSE [b EXCEPT !.pages[frame_id].is_dirty = is_dirty,
                              !.pages[frame_id].pin_count = @ - 1,
                              !.replacer = IF page_.pin_count - 1 = 0
                                             THEN ReplacerUnpin(@, frame_id) ELSE @,
                              !.ret = TRUE]

UnpinPageImpl(b, page_id, is_dirty) ==
  IF page_id \notin DOMAIN b.page_table
    THEN [b EXCEPT !.ret = FALSE]
    ELSE LET frame_id == b.page_table[page_id]
             page_ == b.pages[frame_id]
         IN  IF page_.pin_count <= 0
               THEN [b EXCEPT !.ret = FALSE]
               ELSE [b EXCEPT !.pages[frame_id].is_dirty = IF ~page_.is_dirty THEN is_dirty ELSE @,
                              !.pages[frame_id].pin_count = @ - 1,
                              !.replacer = IF page_.pin_count - 1 = 0
                                             THEN ReplacerUnpin(@, frame_id) ELSE @,
                              !.ret = TRUE]

\* FlushPageImpl that also releases a pin of the page
FlushPageImplUnpin(b, page_id) ==
  IF page_id \notin DOMAIN b.page_table
    THEN [b EXCEPT !.ret = FALSE]
    ELSE LET frame_id == b.page_table[page_id]
             page_ == b.pages[frame_id]
             b1 == IF page_.is_dirty THEN DiskWritePage(b, page_.page_id, page_.data) ELSE b
         IN  [b1 EXCEPT !.pages[frame_id].is_dirty = FALSE,
                        !.pages[frame_id].pin_count = IF @ > 0 THEN @ - 1 ELSE @,
                        !.ret = TRUE]

FlushPageImpl(b, page_id) ==
  IF page_id \notin DOMAIN b.page_table
    THEN [b EXCEPT !.ret = FALSE]
    ELSE LET frame_id == b.page_table[page_id]
             page_ == b.pages[frame_id]
             b1 == IF page_.is_dirty THEN DiskWritePage(b, page_.page_id, page_.data) ELSE b
         IN  [b1 EXCEPT !.pages[frame_id].is_dirty = FALSE, !.ret = TRUE]

\* NewPageImpl that calls AllocatePage before it looks for a frame
NewPageImplAllocateFirst(b) ==
  LET a == DiskAllocatePage(b)
  IN  IF a.free_list = <<>> /\ ReplacerSize(a.replacer) <= 0
        THEN [a EXCEPT !.ret = nullptr]
        ELSE LET v == FindReplacement(a)
             IN  IF ~v.ok
                   THEN [a EXCEPT !.ret = nullptr]
                   ELSE [v.b EXCEPT !.pages[v.frame_id] =
                                      [page_id |-> b.next_page_id, pin_count |-> 1,
                                       is_dirty |-> FALSE, data |-> ZeroPage],
                                    !.page_table = TableInsert(@, b.next_page_id, v.frame_id),
                                    !.new_id = b.next_page_id,
                                    !.ret = v.frame_id]

\* ret is the frame of the returned Page, or nullptr; new_id is *page_id
NewPageImpl(b) ==
  IF b.free_list = <<>> /\ ReplacerSize(b.replacer) <= 0
    THEN [b EXCEPT !.ret = nullptr]
    ELSE LET v == FindReplacement(b)
         IN  IF ~v.ok
               THEN [b EXCEPT !.ret = nullptr]
               ELSE LET page_id_ == v.b.next_page_id
                        b1 == DiskAllocatePage(v.b)
                    IN  [b1 EXCEPT !.pages[v.frame_id] =
                                      [page_id |-> page_id_, pin_count |-> 1, is_dirty |-> FALSE,
                                       data |-> ZeroPage],
                                   !.page_table = TableInsert(@, page_id_, v.frame_id),
                                   !.new_id = page_id_,
                                   !.ret = v.frame_id]

\* DeletePageImpl that leaves the page-table entry in place
DeletePageImplKeepEntry(b, page_id) ==
  IF page_id \notin DOMAIN b.page_table
    THEN [b EXCEPT !.ret = TRUE]
    ELSE LET frame_id == b.page_table[page_id]
             page_ == b.pages[frame_id]
         IN  IF page_.pin_count # 0
               THEN [b EXCEPT !.ret = FALSE]
               ELSE LET b1 == [b EXCEPT !.pages[frame_id] = NewFrame,
                                        !.replacer = ReplacerPin(@, frame_id),
                                        !.free_list = Append(@, frame_id)]
                    IN  [DiskDeallocatePage(b1, page_id) EXCEPT !.ret = TRUE]

\* DeletePageImpl that does not call DeallocatePage
DeletePageImplNoDeallocate(b, page_id) ==
  IF page_id \notin DOMAIN b.page_table
    THEN [b EXCEPT !.ret = TRUE]
    ELSE LET frame_id == b.page_table[page_id]
             page_ == b.pages[frame_id]
         IN  IF page_.pin_count # 0
               THEN [b EXCEPT !.ret = FALSE]
               ELSE [b EXCEPT !.page_table = TableErase(@, page_id),
                              !.pages[frame_id] = NewFrame,
                              !.replacer = ReplacerPin(@, frame_id),
                              !.free_list = Append(@, frame_id),
                              !.ret = TRUE]

\* DeletePageImpl that leaves the frame in the replacer
DeletePageImplNoReplacerPin(b, page_id) ==
  IF page_id \notin DOMAIN b.page_table
    THEN [b EXCEPT !.ret = TRUE]
    ELSE LET frame_id == b.page_table[page_id]
             page_ == b.pages[frame_id]
         IN  IF page_.pin_count # 0
               THEN [b EXCEPT !.ret = FALSE]
               ELSE LET b1 == [b EXCEPT !.page_table = TableErase(@, page_id),
                                        !.pages[frame_id] = NewFrame,
                                        !.free_list = Append(@, frame_id)]
                    IN  [DiskDeallocatePage(b1, page_id) EXCEPT !.ret = TRUE]

\* DeletePageImpl without the pin-count test
DeletePageImplAnyPin(b, page_id) ==
  IF page_id \notin DOMAIN b.page_table
    THEN [b EXCEPT !.ret = TRUE]
    ELSE LET frame_id == b.page_table[page_id]
             b1 == [b EXCEPT !.page_table = TableErase(@, page_id),
                             !.pages[frame_id] = NewFrame,
                             !.replacer = ReplacerPin(@, frame_id),
                             !.free_list = Append(@, frame_id)]
         IN  [DiskDeallocatePage(b1, page_id) EXCEPT !.ret = TRUE]

DeletePageImpl(b, page_id) ==
  IF page_id \notin DOMAIN b.page_table
    THEN [b EXCEPT !.ret = TRUE]
    ELSE LET frame_id == b.page_table[page_id]
             page_ == b.pages[frame_id]
         IN  IF page_.pin_count # 0
               THEN [b EXCEPT !.ret = FALSE]
               ELSE LET b1 == [b EXCEPT !.page_table = TableErase(@, page_id),
                                        !.pages[frame_id] = NewFrame,
                                        !.replacer = ReplacerPin(@, frame_id),
                                        !.free_list = Append(@, frame_id)]
                    IN  [DiskDeallocatePage(b1, page_id) EXCEPT !.ret = TRUE]

\* the range-for over page_table_: each resident page is flushed once
RECURSIVE FlushSet(_, _)
FlushSet(b, S) ==
  IF S = {} THEN b
  ELSE LET page_id == CHOOSE p \in S : \A q \in S : p <= q
       IN  FlushSet(FlushPageImpl(b, page_id), S \ {page_id})

FlushAllPagesImpl(b) == [FlushSet(b, DOMAIN b.page_table) EXCEPT !.ret = TRUE]

(* ------------------ the machine state as one record ------------------- *)
\* the fields of BufferPoolManager and of the disk behind it, with an empty
\* log for the operation that is about to run
Cur == [pages |-> pages, page_table |-> page_table, free_list |-> free_list,
        replacer |-> replacer, disk |-> disk, next_page_id |-> next_page_id,
        root_page_id |-> root_page_id, status |-> status,
        trace |-> <<>>, ret |-> FALSE, new_id |-> INVALID_PAGE_ID,
        result |-> <<>>]

Install(b) ==
  /\ pages' = b.pages
  /\ page_table' = b.page_table
  /\ free_list' = b.free_list
  /\ replacer' = b.replacer
  /\ disk' = b.disk
  /\ next_page_id' = b.next_page_id
  /\ root_page_id' = b.root_page_id
  /\ status' = b.status

\* the page ids an operation with log t handed to DeallocatePage
Deallocated(t) == {t[i][2] : i \in {j \in 1..Len(t) : t[j][1] = "DeallocatePage"}}

(* ----------------- buffer-pool specification: clients ----------------- *)
\* page ids the clients of the pool name
PageIds == 0..MaxPageId

\* what the clients did, during its residency, to each page that is followed
NoHist(S) == [modified |-> [p \in S |-> FALSE],
              dirty_unpin |-> [p \in S |-> FALSE],
              dirty_since_flush |-> [p \in S |-> FALSE],
              evicted |-> [p \in S |-> <<>>]]

Followed(h) == DOMAIN h.evicted

\* the residency of page_id ends
HistGone(h, page_id) ==
  IF page_id \notin Followed(h) THEN h
  ELSE [h EXCEPT !.modified[page_id] = FALSE, !.dirty_unpin[page_id] = FALSE,
                 !.dirty_since_flush[page_id] = FALSE]

\* the Victim events of a log, as the eviction records of the victims
RECURSIVE HistEvict(_, _)
HistEvict(h, tr) ==
  IF tr = <<>> THEN h
  ELSE LET e == Head(tr)
       IN  IF e[1] = "Victim" /\ e[3] \in Followed(h)
             THEN HistEvict([HistGone(h, e[3]) EXCEPT !.evicted[e[3]] =
                                 <<[bytes |-> e[5],
                                    dirty_unpin |-> h.modified[e[3]] /\ h.dirty_unpin[e[3]],
                                    dirty_since_flush |-> h.dirty_since_flush[e[3]]]>>],
                            Tail(tr))
             ELSE HistEvict(h, Tail(tr))

\* a residency of page_id begins
HistResident(h, page_id) ==
  IF page_id \notin Followed(h) THEN h
  ELSE [HistGone(h, page_id) EXCEPT !.evicted[page_id] = <<>>]

\* an unpin_page(page_id, true) that returned true
HistDirtyUnpin(h, page_id) ==
  IF page_id \notin Followed(h) THEN h
  ELSE [h EXCEPT !.dirty_unpin[page_id] = @ \/ h.modified[page_id],
                 !.dirty_since_flush[page_id] = TRUE]

\* the bytes of page_id were changed under a pin
HistModified(h, page_id) ==
  IF page_id \notin Followed(h) THEN h ELSE [h EXCEPT !.modified[page_id] = TRUE]

\* the pages of S were written back by a flush
RECURSIVE HistFlush(_, _)
HistFlush(h, S) ==
  IF S = {} THEN h
  ELSE LET p == CHOOSE q \in S : TRUE
       IN  HistFlush([h EXCEPT !.dirty_since_flush[p] = FALSE], S \ {p})

\* one client at a time: no thread is inside an operation, the latch of the
\* pool and the mutex of the replacer are free
SingleClient == UNCHANGED <<latch, mtx, thr, born>>

TreeUnchanged == UNCHANGED <<leaf_max_size, internal_max_size, nops, gone>> /\ SingleClient

FetchPage(page_id) ==
  /\ status = "ok"
  /\ page_id \in DOMAIN page_table => pages[page_table[page_id]].pin_count < MaxPin
  /\ LET b == FetchPageImpl(Cur, page_id)
         miss == page_id \notin DOMAIN page_table /\ b.ret # nullptr
     IN   /\ Install(b)
         /\ kv' = kv
         /\ hist' = IF miss THEN HistResident(HistEvict(hist, b.trace), page_id) ELSE hist
  /\ TreeUnchanged

UnpinPage(page_id, is_dirty) ==
  /\ status = "ok"
  /\ LET b == UnpinPageImpl(Cur, page_id, is_dirty)
     IN  /\ Install(b)
         /\ kv' = kv
         /\ hist' = IF b.ret /\ is_dirty THEN HistDirtyUnpin(hist, page_id) ELSE hist
  /\ TreeUnchanged

NewPage ==
  /\ status = "ok"
  /\ next_page_id <= MaxPageId
  /\ LET b == NewPageImpl(Cur)
     IN  /\ Install(b)
         /\ kv' = kv
         /\ hist' = IF b.ret # nullptr THEN HistResident(HistEvict(hist, b.trace), b.new_id) ELSE hist
  /\ TreeUnchanged

DeletePage(page_id) ==
  /\ status = "ok"
  /\ LET b == DeletePageImpl(Cur, page_id)
     IN  /\ Install(b)
         /\ kv' = kv
         /\ hist' = IF page_id \in DOMAIN page_table /\ b.ret THEN HistGone(hist, page_id) ELSE hist
  /\ TreeUnchanged

FlushPage(page_id) ==
  /\ status = "ok"
  /\ LET b == FlushPageImpl(Cur, page_id)
     IN  /\ Install(b)
         /\ kv' = kv
         /\ hist' = IF b.ret THEN HistFlush(hist, {page_id} \cap Followed(hist)) ELSE hist
  /\ TreeUnchanged

FlushAllPages ==
  /\ status = "ok"
  /\ LET b == FlushAllPagesImpl(Cur)
     IN  /\ Install(b)
         /\ kv' = kv
         /\ hist' = HistFlush(hist, (DOMAIN page_table) \cap Followed(hist))
  /\ TreeUnchanged

\* a holder of a pin writes v into the bytes of the page
WriteData(page_id, v) ==
  /\ status = "ok"
  /\ page_id \in DOMAIN page_table
  /\ pages[page_table[page_id]].pin_count > 0
  /\ pages[page_table[page_id]].data # RawPage(v)
  /\ pages' = [pages EXCEPT ![page_table[page_id]].data = RawPage(v)]
  /\ kv' = kv
  /\ hist' = HistModified(hist, page_id)
  /\ UNCHANGED <<page_table, free_list, replacer, disk, next_page_id, root_page_id, status>>
  /\ TreeUnchanged

\* the state the BufferPoolManager constructor builds over an empty disk
InitPool(S) ==
  /\ pages = [f \in 0..(PoolSize - 1) |-> NewFrame]
  /\ page_table = <<>>
  /\ free_list = [i \in 1..PoolSize |-> i - 1]
  /\ replacer = NewReplacer
  /\ disk = [p \in PageIds |-> ZeroPage]
  /\ next_page_id = 0
  /\ root_page_id = INVALID_PAGE_ID
  /\ leaf_max_size = 0
  /\ internal_max_size = 0
  /\ status = "ok"
  /\ kv = <<>>
  /\ hist = NoHist(S)
  /\ nops = 0
  /\ latch = 0
  /\ mtx = 0
  /\ thr = <<>>
  /\ born = <<>>
  /\ gone = {}

\* the clients' history is kept for page 0
Init == InitPool({0})

Next ==
  \/ \E page_id \in PageIds : FetchPage(page_id)
  \/ \E page_id \in PageIds, is_dirty \in BOOLEAN : UnpinPage(page_id, is_dirty)
  \/ NewPage
  \/ \E page_id \in PageIds : DeletePage(page_id)
  \/ \E page_id \in PageIds : FlushPage(page_id)
  \/ FlushAllPages
  \/ \E page_id \in PageIds, v \in 0..MaxByte : WriteData(page_id, v)

Spec == Init /\ [][Next]_vars

(* ====================== B+ tree pages (typed views) ==================== *)
\* A node pointer of the C++ code is the frame whose bytes it points into;
\* the entries of a page are kept up to `size', a read outside them is a
\* read of stale bytes.
Data(m, f) == m.pages[f].data
\* a store into the bytes of the page in frame f; the log keeps the stores
\* that change them
Put(m, f, d) ==
  IF d = m.pages[f].data THEN m
  ELSE Log([m EXCEPT !.pages[f].data = d], <<"Write", m.pages[f].page_id>>)
Fail(m, s) == IF m.status = "ok" THEN [m EXCEPT !.status = s] ELSE m
Ok(m) == m.status = "ok"

\* one statement after another: Do([x \in {e} |-> rest]) is rest with x
\* naming the value of e
Do(step) == step[CHOOSE x \in DOMAIN step : TRUE]

\* the calls the index makes on the buffer pool; no caller tests the result
\* of FetchPage, so a null page is dereferenced (status "nullpage"); status
\* "ub" is a typed access to bytes that are no tree page or lie outside the
\* entries of a page, "oom" the OUT_OF_MEMORY exception
Fetch(m, page_id) ==
  IF ~Ok(m) THEN m
  ELSE Do([r \in {FetchPageImpl(m, page_id)} |->
         IF r.ret = nullptr THEN Fail(r, "nullpage") ELSE Log(r, <<"Pin", page_id>>)])
Unpin(m, page_id, is_dirty) ==
  IF ~Ok(m) THEN m
  ELSE UnpinPageImpl(Log(m, <<"UnpinPage", page_id, is_dirty>>), page_id, is_dirty)
Delete(m, page_id) == IF ~Ok(m) THEN m ELSE DeletePageImpl(m, page_id)

IsLeafPage(d) == d.page_type = "LEAF_PAGE"
IsTreePage(d) == d.page_type \in {"LEAF_PAGE", "INTERNAL_PAGE"}
IsRootPage(d) == d.parent_page_id = INVALID_PAGE_ID
GetMinSize(d) == IF IsLeafPage(d) THEN d.max_size \div 2 ELSE (d.max_size + 1) \div 2

\* entry i of the array, counted from 0 as in the code
KeyAt(d, i) == d.array[i + 1][1]
ValueAt(d, i) == d.array[i + 1][2]
SetKeyAt(d, i, key) == [d EXCEPT !.array[i + 1][1] = key]
InsertAt(arr, i, e) == SubSeq(arr, 1, i) \o <<e>> \o SubSeq(arr, i + 1, Len(arr))
RemoveAt(arr, i) == SubSeq(arr, 1, i) \o SubSeq(arr, i + 2, Len(arr))
Sized(d, arr) == [d EXCEPT !.array = arr, !.size = Len(arr)]

(* ------------------------------ leaf page ------------------------------ *)
LeafInit(page_id, parent_id, max_size) ==
  [page_type |-> "LEAF_PAGE", size |-> 0, max_size |-> max_size,
   parent_page_id |-> parent_id, page_id |-> page_id,
   next_page_id |-> INVALID_PAGE_ID, array |-> <<>>]

\* smallest index whose key is >= key; size when there is none
LeafKeyIndex(d, key) == Cardinality({i \in 0..(d.size - 1) : KeyAt(d, i) < key})

LeafLookup(d, key) ==
  LET i == LeafKeyIndex(d, key)
  IN  IF i < d.size /\ KeyAt(d, i) = key
        THEN [found |-> TRUE, value |-> ValueAt(d, i)]
        ELSE [found |-> FALSE, value |-> 0]

LeafInsert(d, key, value) == Sized(d, InsertAt(d.array, LeafKeyIndex(d, key), <<key, value>>))

LeafRemoveAndDeleteRecord(d, key) ==
  LET i == LeafKeyIndex(d, key)
  IN  IF i < d.size /\ KeyAt(d, i) = key THEN Sized(d, RemoveAt(d.array, i)) ELSE d

\* the upper half, size - floor(size / 2) entries, goes to the empty recipient,
\* which is linked between this leaf and its old next leaf
LeafMoveHalfTo(m, f, rf) ==
  LET d == Data(m, f)
      r == Data(m, rf)
      keep == d.size \div 2
      r1 == [Sized(r, r.array \o SubSeq(d.array, keep + 1, d.size))
               EXCEPT !.next_page_id = d.next_page_id]
      d1 == [Sized(d, SubSeq(d.array, 1, keep)) EXCEPT !.next_page_id = r.page_id]
  IN  Put(Put(m, rf, r1), f, d1)

LeafMoveAllTo(m, f, rf) ==
  LET d == Data(m, f)
      r == Data(m, rf)
      r1 == [Sized(r, r.array \o d.array) EXCEPT !.next_page_id = d.next_page_id]
  IN  Put(Put(m, rf, r1), f, Sized(d, <<>>))

LeafMoveFirstToEndOf(m, f, rf) ==
  LET d == Data(m, f)
      r == Data(m, rf)
  IN  Put(Put(m, rf, Sized(r, Append(r.array, d.array[1]))), f, Sized(d, Tail(d.array)))

LeafMoveLastToFrontOf(m, f, rf) ==
  LET d == Data(m, f)
      r == Data(m, rf)
  IN  Put(Put(m, rf, Sized(r, <<d.array[d.size]>> \o r.array)),
          f, Sized(d, SubSeq(d.array, 1, d.size - 1)))

(* ---------------------------- internal page ---------------------------- *)
InternalInit(page_id, parent_id, max_size) ==
  [page_type |-> "INTERNAL_PAGE", size |-> 0, max_size |-> max_size,
   parent_page_id |-> parent_id, page_id |-> page_id,
   next_page_id |-> 0, array |-> <<>>]

ValueIndex(d, value) ==
  LET S == {i \in 0..(d.size - 1) : ValueAt(d, i) = value}
  IN  IF S = {} THEN -1 ELSE CHOOSE i \in S : \A j \in S : i <= j

InternalLookup(d, key, from_insert) ==
  IF d.size = 0 THEN INVALID_PAGE_ID
  ELSE LET S == {i \in 1..(d.size - 1) : KeyAt(d, i) >= key}
       IN  IF S = {} THEN ValueAt(d, d.size - 1)
           ELSE LET i == CHOOSE x \in S : \A y \in S : x <= y
                IN  IF KeyAt(d, i) = key THEN ValueAt(d, i)
                    ELSE IF from_insert /\ KeyAt(d, 0) > key THEN INVALID_PAGE_ID
                    ELSE ValueAt(d, i - 1)

\* fetch a child, SetParentPageId, unpin it dirty under the id unpin_id
Adopt(m, page_id, parent_id, by_own_id) ==
  Do([m1 \in {Fetch(m, page_id)} |->
    IF ~Ok(m1) THEN m1
    ELSE LET cf == m1.ret
             c == Data(m1, cf)
         IN  IF ~IsTreePage(c) THEN Fail(m1, "ub")
             ELSE Unpin(Put(m1, cf, [c EXCEPT !.parent_page_id = parent_id]),
                        IF by_own_id THEN c.page_id ELSE page_id, TRUE)])

PopulateNewRoot(m, f, old_value, new_key, new_value) ==
  LET d == Data(m, f)
      m1 == Put(m, f, [d EXCEPT !.array = <<<<0, old_value>>, <<new_key, new_value>>>>])
  IN  Do([m3 \in {Adopt(Adopt(m1, old_value, d.page_id, TRUE), new_value, d.page_id, TRUE)} |->
        IF ~Ok(m3) THEN m3 ELSE Put(m3, f, [Data(m3, f) EXCEPT !.size = 2])])

RECURSIVE InsertNodeAfter(_, _, _, _, _)
InsertNodeAfter(m, f, old_value, new_key, new_value) ==
  Do([m1 \in {Adopt(m, new_value, Data(m, f).page_id, FALSE)} |->
    IF ~Ok(m1) THEN m1
    ELSE LET d == Data(m1, f)
         IN  IF old_value = INVALID_PAGE_ID
               THEN IF d.size = 0 THEN Fail(m1, "ub")
                    ELSE InsertNodeAfter(
                           Put(m1, f, [d EXCEPT !.array[1] = <<new_key, new_value>>]),
                           f, new_value, KeyAt(d, 0), ValueAt(d, 0))
               ELSE LET index == ValueIndex(d, old_value)
                    IN  Put(m1, f, Sized(d, InsertAt(d.array, index + 1, <<new_key, new_value>>)))])

\* CopyNFrom that leaves the parent_id of the copied children alone
CopyNFromNoAdopt(m, rf, items) ==
  IF ~Ok(m) THEN m ELSE Put(m, rf, [Data(m, rf) EXCEPT !.array = @ \o items])

\* recipient->CopyNFrom(items, size): adopt and append the entries one by one
RECURSIVE CopyNFrom(_, _, _)
CopyNFrom(m, rf, items) ==
  IF items = <<>> \/ ~Ok(m) THEN m
  ELSE Do([m1 \in {Adopt(m, Head(items)[2], Data(m, rf).page_id, FALSE)} |->
         IF ~Ok(m1) THEN m1
         ELSE CopyNFrom(Put(m1, rf, [Data(m1, rf) EXCEPT !.array = Append(@, Head(items))]),
                        rf, Tail(items))])

\* CopyNFrom raises the size once, after the loop
CopyNFromSized(m, rf, items) ==
  Do([m1 \in {CopyNFrom(m, rf, items)} |->
    IF ~Ok(m1) THEN m1 ELSE Put(m1, rf, Sized(Data(m1, rf), Data(m1, rf).array))])

InternalMoveHalfTo(m, f, rf, index) ==
  LET d == Data(m, f)
      curr_size == d.size
      split_index == ((curr_size + 2) \div 2) - (IF index < GetMinSize(d) THEN 1 ELSE 0)
  IN  Do([m1 \in {CopyNFromSized(m, rf, SubSeq(d.array, split_index + 1, curr_size))} |->
        IF ~Ok(m1) THEN m1
        ELSE Put(m1, f, Sized(Data(m1, f), SubSeq(Data(m1, f).array, 1, split_index)))])

InternalRemove(d, index) == Sized(d, RemoveAt(d.array, index))

InternalMoveAllTo(m, f, rf, middle_key) ==
  LET d == SetKeyAt(Data(m, f), 0, middle_key)
  IN  Do([m1 \in {CopyNFromSized(Put(m, f, d), rf, d.array)} |->
        IF ~Ok(m1) THEN m1 ELSE Put(m1, f, Sized(Data(m1, f), <<>>))])

CopyLastFrom(m, rf, pair) ==
  Do([m1 \in {Adopt(m, pair[2], Data(m, rf).page_id, FALSE)} |->
    IF ~Ok(m1) THEN m1 ELSE Put(m1, rf, Sized(Data(m1, rf), Append(Data(m1, rf).array, pair)))])

InternalMoveFirstToEndOf(m, f, rf, middle_key) ==
  LET d == SetKeyAt(Data(m, f), 0, middle_key)
  IN  Do([m1 \in {CopyLastFrom(Put(m, f, d), rf, d.array[1])} |->
        IF ~Ok(m1) THEN m1 ELSE Put(m1, f, Sized(Data(m1, f), Tail(Data(m1, f).array)))])

CopyFirstFrom(m, rf, pair, middle_key) ==
  Do([m1 \in {Adopt(Put(m, rf, SetKeyAt(Data(m, rf), 0, middle_key)),
                     pair[2], Data(m, rf).page_id, FALSE)} |->
    IF ~Ok(m1) THEN m1 ELSE Put(m1, rf, Sized(Data(m1, rf), <<pair>> \o Data(m1, rf).array))])

InternalMoveLastToFrontOf(m, f, rf, middle_key) ==
  Do([m1 \in {CopyFirstFrom(m, rf, Data(m, f).array[Data(m, f).size], middle_key)} |->
    IF ~Ok(m1) THEN m1
    ELSE Put(m1, f, Sized(Data(m1, f), SubSeq(Data(m1, f).array, 1, Data(m1, f).size - 1)))])

(* ------------------------------ header page ---------------------------- *)
\* the record of this index in the header page; zero bytes hold no record
HeaderRecords(d) == IF d.page_type = "HEADER_PAGE" THEN d.records ELSE <<>>
HeaderInsertRecord(d, root_id) ==
  IF HeaderRecords(d) # <<>> THEN d ELSE [page_type |-> "HEADER_PAGE", records |-> <<root_id>>]
HeaderUpdateRecord(d, root_id) ==
  IF HeaderRecords(d) = <<>> THEN d ELSE [page_type |-> "HEADER_PAGE", records |-> <<root_id>>]

(* ================================ BPlusTree ============================ *)
IsEmpty(m) == m.root_page_id = INVALID_PAGE_ID

\* NewPage as the index calls it: a null page throws OUT_OF_MEMORY
New(m) ==
  IF ~Ok(m) THEN m
  ELSE Do([r \in {NewPageImpl(m)} |->
         IF r.ret = nullptr THEN Fail(r, "oom") ELSE Log(r, <<"Pin", r.new_id>>)])

UpdateRootPageId(m, insert_record) ==
  Do([m1 \in {Fetch(m, HEADER_PAGE_ID)} |->
    IF ~Ok(m1) THEN m1
    ELSE LET f == m1.ret
             d == Data(m1, f)
             d1 == IF insert_record # 0 THEN HeaderInsertRecord(d, m1.root_page_id)
                   ELSE HeaderUpdateRecord(d, m1.root_page_id)
         IN  Unpin(Put(m1, f, d1), HEADER_PAGE_ID, TRUE)])

\* the loop of FindLeafPage, at the page in frame f; ret is the leaf's frame.
\* Zero bytes read as an internal page of size 0 and page id 0: Lookup gives
\* INVALID_PAGE_ID, and when the page fetched under that id is zero bytes
\* again the loop repeats without end (status "hang")
RECURSIVE Descend(_, _, _, _)
Descend(m, f, key, leftMost) ==
  IF ~Ok(m) THEN m
  ELSE LET d == Data(m, f)
       IN  IF IsLeafPage(d) THEN [m EXCEPT !.ret = f]
           ELSE IF d = ZeroPage /\ ~leftMost
             THEN Do([m2 \in {Fetch(Unpin(m, 0, FALSE), INVALID_PAGE_ID)} |->
                    IF ~Ok(m2) THEN m2
                    ELSE IF Data(m2, m2.ret) = ZeroPage THEN Fail(m2, "hang")
                    ELSE Descend(m2, m2.ret, key, leftMost)])
           ELSE IF ~IsTreePage(d) \/ (leftMost /\ d.size = 0) THEN Fail(m, "ub")
           ELSE LET page_id == IF leftMost THEN ValueAt(d, 0) ELSE InternalLookup(d, key, FALSE)
                IN  Do([m2 \in {Fetch(Unpin(m, d.page_id, FALSE), page_id)} |->
                      IF ~Ok(m2) THEN m2 ELSE Descend(m2, m2.ret, key, leftMost)])

FindLeafPage(m, key, leftMost) ==
  Do([m1 \in {Fetch(m, m.root_page_id)} |->
    IF ~Ok(m1) THEN m1 ELSE Descend(m1, m1.ret, key, leftMost)])

\* ret is key_exists, result the vector the value is pushed to
BPlusTreeGetValue(m, key) ==
  Do([m1 \in {FindLeafPage(m, key, FALSE)} |->
    IF ~Ok(m1) THEN m1
    ELSE LET f == m1.ret
             r == LeafLookup(Data(m1, f), key)
         IN  [Unpin(m1, m1.pages[f].page_id, FALSE)
                EXCEPT !.ret = r.found, !.result = <<r.value>>]])

StartNewTree(m, key, value) ==
  Do([m1 \in {New(m)} |->
    IF ~Ok(m1) THEN m1
    ELSE LET f == m1.ret
             page_id == m1.new_id
         IN  Do([m2 \in {UpdateRootPageId([m1 EXCEPT !.root_page_id = page_id], 1)} |->
               Unpin(Put(m2, f, LeafInsert(LeafInit(page_id, INVALID_PAGE_ID, leaf_max_size),
                                           key, value)),
                     page_id, TRUE)])])

\* ret is the frame of the new page
Split(m, f, index) ==
  Do([m1 \in {New(m)} |->
    IF ~Ok(m1) THEN m1
    ELSE LET nf == m1.ret
             page_id == m1.new_id
             node == Data(m1, f)
         IN  IF IsLeafPage(node)
               THEN [LeafMoveHalfTo(
                       Put(m1, nf, LeafInit(page_id, node.parent_page_id, leaf_max_size)),
                       f, nf) EXCEPT !.ret = nf]
               ELSE [InternalMoveHalfTo(
                       Put(m1, nf, InternalInit(page_id, node.parent_page_id, internal_max_size)),
                       f, nf, index) EXCEPT !.ret = nf]])

RECURSIVE InsertIntoParent(_, _, _, _)
InsertIntoParent(m, of, key, nf) ==
  IF ~Ok(m) THEN m
  ELSE
  LET old_node == Data(m, of)
      page_id == Data(m, nf).page_id
  IN  IF IsRootPage(old_node)
        THEN Do([m1 \in {New(m)} |->
               IF ~Ok(m1) THEN m1
               ELSE LET rf == m1.ret
                        parent_id == m1.new_id
                    IN  Do([m2 \in {PopulateNewRoot(
                                      Put(m1, rf, InternalInit(parent_id, INVALID_PAGE_ID,
                                                               internal_max_size)),
                                      rf, old_node.page_id, key, page_id)} |->
                          Unpin(UpdateRootPageId([m2 EXCEPT !.root_page_id = parent_id], 0),
                                parent_id, TRUE)])])
        ELSE Do([m1 \in {Fetch(m, old_node.parent_page_id)} |->
               IF ~Ok(m1) THEN m1
               ELSE IF Data(m1, m1.ret).page_type # "INTERNAL_PAGE" THEN Fail(m1, "ub")
               ELSE
               LET parent_id == old_node.parent_page_id
                   pf == m1.ret
                   parent == Data(m1, pf)
                   old_value == InternalLookup(parent, key, FALSE)
                   index == ValueIndex(parent, old_value)
                   size == parent.size
               IN  IF size + 1 > parent.max_size
                     THEN Do([m2 \in {Split(m1, pf, index)} |->
                            IF ~Ok(m2) THEN m2
                            ELSE
                            Do([m3 \in {IF index < GetMinSize(Data(m2, pf))
                                          THEN InsertNodeAfter(m2, pf, old_value, key, page_id)
                                          ELSE InsertNodeAfter(
                                                 m2, m2.ret,
                                                 InternalLookup(Data(m2, m2.ret), key, TRUE),
                                                 key, page_id)} |->
                              IF ~Ok(m3) THEN m3
                              ELSE IF Data(m3, m2.ret).size = 0 THEN Fail(m3, "ub")
                              ELSE
                              Do([m5 \in {Unpin(InsertIntoParent(
                                                  m3, pf, KeyAt(Data(m3, m2.ret), 0), m2.ret),
                                                parent_id, TRUE)} |->
                                Unpin(m5, Data(m5, m2.ret).page_id, TRUE)])])])
                     ELSE Unpin(InsertNodeAfter(m1, pf, old_value, key, page_id),
                                parent_id, TRUE)])

\* InsertIntoLeaf that passes the inserted key to InsertIntoParent
InsertIntoLeafKeySeparator(m, key, value) ==
  Do([m1 \in {FindLeafPage(m, key, FALSE)} |->
    IF ~Ok(m1) THEN m1
    ELSE
    LET f == m1.ret
        leaf_page == Data(m1, f)
    IN  IF LeafLookup(leaf_page, key).found
          THEN [Unpin(m1, m1.pages[f].page_id, FALSE) EXCEPT !.ret = FALSE]
          ELSE
          Do([m2 \in {Put(m1, f, LeafInsert(leaf_page, key, value))} |->
            Do([m3 \in {IF Data(m2, f).size = leaf_page.max_size
                          THEN Do([s \in {Split(m2, f, 0)} |->
                                 IF ~Ok(s) THEN s
                                 ELSE Do([p \in {InsertIntoParent(
                                                   s, f, key, s.ret)} |->
                                        Unpin(p, Data(p, s.ret).page_id, TRUE)])])
                          ELSE m2} |->
              [Unpin(m3, m3.pages[f].page_id, TRUE) EXCEPT !.ret = TRUE]])])])

InsertIntoLeaf(m, key, value) ==
  Do([m1 \in {FindLeafPage(m, key, FALSE)} |->
    IF ~Ok(m1) THEN m1
    ELSE
    LET f == m1.ret
        leaf_page == Data(m1, f)
    IN  IF LeafLookup(leaf_page, key).found
          THEN [Unpin(m1, m1.pages[f].page_id, FALSE) EXCEPT !.ret = FALSE]
          ELSE
          Do([m2 \in {Put(m1, f, LeafInsert(leaf_page, key, value))} |->
            Do([m3 \in {IF Data(m2, f).size = leaf_page.max_size
                          THEN Do([s \in {Split(m2, f, 0)} |->
                                 IF ~Ok(s) THEN s
                                 ELSE Do([p \in {InsertIntoParent(
                                                   s, f, KeyAt(Data(s, s.ret), 0), s.ret)} |->
                                        Unpin(p, Data(p, s.ret).page_id, TRUE)])])
                          ELSE m2} |->
              [Unpin(m3, m3.pages[f].page_id, TRUE) EXCEPT !.ret = TRUE]])])])

BPlusTreeInsert(m, key, value) ==
  IF IsEmpty(m) THEN [StartNewTree(m, key, value) EXCEPT !.ret = TRUE]
  ELSE InsertIntoLeaf(m, key, value)

\* ret is delete_root
AdjustRoot(m, f) ==
  LET old_root_node == Data(m, f)
      size == old_root_node.size
      only_child == size = 1 /\ ~IsLeafPage(old_root_node)
      delete_root == only_child \/ size = 0
      new_root_id == ValueAt(old_root_node, 0)
  IN  Do([m1 \in {IF only_child
                    THEN Do([a1 \in {Fetch([Put(m, f, Sized(old_root_node, <<>>))
                                              EXCEPT !.root_page_id = new_root_id],
                                           new_root_id)} |->
                           IF ~Ok(a1) THEN a1
                           ELSE IF ~IsTreePage(Data(a1, a1.ret)) THEN Fail(a1, "ub")
                           ELSE Unpin(Put(a1, a1.ret,
                                          [Data(a1, a1.ret)
                                             EXCEPT !.parent_page_id = INVALID_PAGE_ID]),
                                      new_root_id, TRUE)])
                    ELSE IF size = 0 THEN [m EXCEPT !.root_page_id = INVALID_PAGE_ID]
                    ELSE m} |->
        Do([m2 \in {IF delete_root
                      THEN Do([u \in {UpdateRootPageId(m1, 0)} |->
                             Do([u1 \in {Unpin(u, Data(u, f).page_id, TRUE)} |->
                               Delete(u1, Data(u1, f).page_id)])])
                      ELSE m1} |->
          IF ~Ok(m2) THEN m2 ELSE [m2 EXCEPT !.ret = delete_root]])])

\* Coalesce that removes slot 0 of the parent when the node is its first child
CoalesceRemoveFirst(m, nf, f, pf, index) ==
  LET node == Data(m, f)
      neighbor_node == Data(m, nf)
      parent == Data(m, pf)
  IN  Do([m1 \in {IF IsLeafPage(node)
                    THEN IF index = 0 THEN LeafMoveAllTo(m, nf, f) ELSE LeafMoveAllTo(m, f, nf)
                    ELSE IF index = 0 THEN InternalMoveAllTo(m, nf, f, KeyAt(parent, 1))
                         ELSE InternalMoveAllTo(m, f, nf, KeyAt(parent, index))} |->
        Do([m4 \in {Delete(Unpin(Unpin(m1, node.page_id, TRUE), neighbor_node.page_id, TRUE),
                           IF index = 0 THEN neighbor_node.page_id ELSE node.page_id)} |->
          Do([m5 \in {Put(m4, pf, InternalRemove(Data(m4, pf), IF index = 0 THEN 0 ELSE index))} |->
            IF ~Ok(m5) THEN m5
            ELSE [m5 EXCEPT !.ret = Data(m5, pf).size < GetMinSize(Data(m5, pf))]])])])

\* ret is "the parent fell below its minimum size"
Coalesce(m, nf, f, pf, index) ==
  LET node == Data(m, f)
      neighbor_node == Data(m, nf)
      parent == Data(m, pf)
  IN  Do([m1 \in {IF IsLeafPage(node)
                    THEN IF index = 0 THEN LeafMoveAllTo(m, nf, f) ELSE LeafMoveAllTo(m, f, nf)
                    ELSE IF index = 0 THEN InternalMoveAllTo(m, nf, f, KeyAt(parent, 1))
                         ELSE InternalMoveAllTo(m, f, nf, KeyAt(parent, index))} |->
        Do([m4 \in {Delete(Unpin(Unpin(m1, node.page_id, TRUE), neighbor_node.page_id, TRUE),
                           IF index = 0 THEN neighbor_node.page_id ELSE node.page_id)} |->
          Do([m5 \in {Put(m4, pf, InternalRemove(Data(m4, pf), IF index = 0 THEN 1 ELSE index))} |->
            IF ~Ok(m5) THEN m5
            ELSE [m5 EXCEPT !.ret = Data(m5, pf).size < GetMinSize(Data(m5, pf))]])])])

Redistribute(m, nf, f, pf, index) ==
  LET node == Data(m, f)
      neighbor_node == Data(m, nf)
      parent == Data(m, pf)
  IN  Do([m1 \in {IF IsLeafPage(node)
                    THEN IF index = 0 THEN LeafMoveFirstToEndOf(m, nf, f)
                         ELSE LeafMoveLastToFrontOf(m, nf, f)
                    ELSE IF index = 0 THEN InternalMoveFirstToEndOf(m, nf, f, KeyAt(parent, 1))
                         ELSE InternalMoveLastToFrontOf(m, nf, f, KeyAt(parent, index))} |->
        IF ~Ok(m1) THEN m1
        ELSE Do([m2 \in {IF index = 0
                           THEN Put(m1, pf, SetKeyAt(Data(m1, pf), 1, KeyAt(Data(m1, nf), 0)))
                           ELSE Put(m1, pf, SetKeyAt(Data(m1, pf), index, KeyAt(Data(m1, f), 0)))} |->
               Unpin(Unpin(m2, node.page_id, TRUE), neighbor_node.page_id, TRUE)])])

RECURSIVE CoalesceOrRedistribute(_, _)
CoalesceOrRedistribute(m, f) ==
  IF ~Ok(m) THEN m
  ELSE
  LET node == Data(m, f)
      parent_id == node.parent_page_id
  IN  IF IsRootPage(node) THEN AdjustRoot(m, f)
      ELSE
      Do([m1 \in {Fetch(m, parent_id)} |->
        IF ~Ok(m1) THEN m1
        ELSE IF Data(m1, m1.ret).page_type # "INTERNAL_PAGE" THEN Fail(m1, "ub")
        ELSE
        LET pf == m1.ret
            parent == Data(m1, pf)
            index == ValueIndex(parent, node.page_id)
            neighbor_index == IF index = 0 THEN index + 1 ELSE index - 1
        IN  IF neighbor_index < 0 \/ neighbor_index >= parent.size THEN Fail(m1, "ub")
            ELSE
            Do([m2 \in {Fetch(m1, ValueAt(parent, neighbor_index))} |->
              IF ~Ok(m2) THEN m2
              ELSE IF Data(m2, m2.ret).page_type # node.page_type THEN Fail(m2, "ub")
              ELSE
              LET nf == m2.ret
                  neighbor_node == Data(m2, nf)
                  isLeaf == IF IsLeafPage(node) THEN 1 ELSE 0
              IN  IF node.size + neighbor_node.size + isLeaf > node.max_size
                    THEN Unpin(Redistribute(m2, nf, f, pf, index), parent_id, TRUE)
                    ELSE Do([c \in {Coalesce(m2, nf, f, pf, index)} |->
                           IF ~Ok(c) THEN c
                           ELSE IF c.ret THEN CoalesceOrRedistribute(c, pf)
                           ELSE Unpin(c, parent_id, TRUE)])])])

\* Remove that never merges or borrows after deleting the record
BPlusTreeRemoveNoRebalance(m, key) ==
  IF IsEmpty(m) THEN m
  ELSE Do([m1 \in {FindLeafPage(m, key, FALSE)} |->
         IF ~Ok(m1) THEN m1
         ELSE Do([m2 \in {Put(m1, m1.ret,
                              LeafRemoveAndDeleteRecord(Data(m1, m1.ret), key))} |->
                Unpin(m2, m2.pages[m1.ret].page_id, TRUE)])])

BPlusTreeRemove(m, key) ==
  IF IsEmpty(m) THEN m
  ELSE Do([m1 \in {FindLeafPage(m, key, FALSE)} |->
         IF ~Ok(m1) THEN m1
         ELSE Do([m2 \in {Put(m1, m1.ret,
                              LeafRemoveAndDeleteRecord(Data(m1, m1.ret), key))} |->
                LET f == m1.ret
                    leaf_page == Data(m2, f)
                IN  IF leaf_page.size < GetMinSize(leaf_page)
                      THEN CoalesceOrRedistribute(m2, f)
                      ELSE Unpin(m2, m2.pages[f].page_id, FALSE)])])

(* ------------------------------ IndexIterator -------------------------- *)
\* an iterator is its fields: curr_page_ is the frame of the leaf it points
\* into, or nullptr
IndexIterator(page, index) == [curr_page_ |-> page, index_ |-> index]
isEnd(it) == it.curr_page_ = nullptr
end == IndexIterator(nullptr, 0)

\* the copy `IndexIterator itr_1 = *this' is memberwise: it takes no pin
IndexIteratorCopy(it) == it

\* ret is the iterator returned
begin(m) ==
  IF IsEmpty(m) THEN [m EXCEPT !.ret = end]
  ELSE Do([m1 \in {FindLeafPage(m, 0, TRUE)} |->
         IF ~Ok(m1) THEN m1 ELSE [m1 EXCEPT !.ret = IndexIterator(m1.ret, 0)]])

\* Begin(key): ret is the iterator returned
Begin(m, key) ==
  Do([m1 \in {FindLeafPage(m, key, FALSE)} |->
    IF ~Ok(m1) THEN m1
    ELSE [m1 EXCEPT !.ret = IndexIterator(m1.ret, LeafKeyIndex(Data(m1, m1.ret), key))]])

\* ~IndexIterator
IndexIteratorDestroy(m, it) ==
  IF ~Ok(m) \/ isEnd(it) THEN m
  ELSE IF ~IsTreePage(Data(m, it.curr_page_)) THEN Fail(m, "ub")
  ELSE Unpin(m, Data(m, it.curr_page_).page_id, FALSE)

\* operator*: result holds the pair read
IndexIteratorDeref(m, it) ==
  IF ~Ok(m) THEN m
  ELSE LET d == Data(m, it.curr_page_)
       IN  IF isEnd(it) THEN Fail(m, "nullpage")
           ELSE IF ~IsLeafPage(d) \/ it.index_ >= d.size THEN Fail(m, "ub")
           ELSE [m EXCEPT !.result = <<d.array[it.index_ + 1]>>]

\* operator++: ret is the iterator after the step
IndexIteratorIncrement(m, it) ==
  IF ~Ok(m) THEN m
  ELSE IF isEnd(it) THEN Fail(m, "nullpage")
  ELSE IF ~IsLeafPage(Data(m, it.curr_page_)) THEN Fail(m, "ub")
  ELSE
  LET curr_size == Data(m, it.curr_page_).size
      next_id == Data(m, it.curr_page_).next_page_id
  IN  IF it.index_ + 1 >= curr_size
        THEN Do([m1 \in {IF next_id = INVALID_PAGE_ID THEN [m EXCEPT !.ret = nullptr]
                         ELSE Fetch(m, next_id)} |->
               IF ~Ok(m1) THEN m1
               ELSE IF ~IsTreePage(Data(m1, it.curr_page_)) THEN Fail(m1, "ub")
               ELSE [Unpin(m1, Data(m1, it.curr_page_).page_id, FALSE)
                       EXCEPT !.ret = IndexIterator(m1.ret, 0)]])
        ELSE [m EXCEPT !.ret = IndexIterator(it.curr_page_, it.index_ + 1)]

\* operator== and operator!= work on two copies, which are destroyed when the
\* function returns; ret is the result for `equal', its negation otherwise
IndexIteratorCompare(m, it, itr, equal) ==
  IF ~Ok(m) THEN m
  ELSE
  LET itr_1 == IndexIteratorCopy(it)
      itr_2 == IndexIteratorCopy(itr)
  IN  Do([c \in {IF isEnd(it) THEN [m EXCEPT !.ret = isEnd(itr_2)]
                 ELSE IF isEnd(itr_2) THEN [m EXCEPT !.ret = FALSE]
                 ELSE Do([m_1 \in {IndexIteratorDeref(m, itr_1)} |->
                        Do([m_2 \in {IndexIteratorDeref(m_1, itr_2)} |->
                          IF ~Ok(m_2) THEN m_2
                          ELSE [m EXCEPT !.ret = m_1.result[1][1] = m_2.result[1][1]]])])} |->
        IF ~Ok(c) THEN c
        ELSE [IndexIteratorDestroy(IndexIteratorDestroy(c, itr_2), itr_1)
                EXCEPT !.ret = (c.ret = equal)]])

(* -------------------- index specification: one client ------------------ *)
Keys == 1..MaxKey
\* the record ids the client stores under a key, as the tests derive them
Rids(key) == {10 * slot + key : slot \in 1..MaxValue}

\* kv holds the record id of the last successful Insert of every key that no
\* Remove followed
MapRemove(map, k) == [x \in DOMAIN map \ {k} |-> map[x]]
MapPut(map, k, v) == [x \in DOMAIN map \cup {k} |-> IF x = k THEN v ELSE map[x]]

\* what an operation of the index leaves alone, and the count of operations
Issued ==
  /\ nops < MaxOps
  /\ nops' = nops + 1
  /\ UNCHANGED <<leaf_max_size, internal_max_size, hist>>
  /\ SingleClient

Insert(key, value) ==
  /\ status = "ok"
  /\ \E m \in {BPlusTreeInsert(Cur, key, value)} :
       /\ Install(m)
       /\ gone' = gone \cup Deallocated(m.trace)
       /\ kv' = IF Ok(m) /\ m.ret THEN MapPut(kv, key, value) ELSE kv
  /\ Issued

Remove(key) ==
  /\ status = "ok"
  /\ \E m \in {BPlusTreeRemove(Cur, key)} :
       /\ Install(m)
       /\ gone' = gone \cup Deallocated(m.trace)
       /\ kv' = IF Ok(m) THEN MapRemove(kv, key) ELSE kv
  /\ Issued

GetValue(key) ==
  /\ status = "ok"
  /\ \E m \in {BPlusTreeGetValue(Cur, key)} :
       /\ Install(m)
       /\ gone' = gone \cup Deallocated(m.trace)
       /\ kv' = kv
  /\ Issued

\* BufferPoolManager and BPlusTree constructors, then the client allocates
\* the header page and keeps it pinned
TreeInit ==
  \E cfg \in TreeConfigs :
    LET b0 == [pages |-> [f \in 0..(cfg.pool_size - 1) |-> NewFrame],
               page_table |-> <<>>,
               free_list |-> [i \in 1..cfg.pool_size |-> i - 1],
               replacer |-> NewReplacer, disk |-> <<>>, next_page_id |-> 0,
               root_page_id |-> INVALID_PAGE_ID, status |-> "ok",
               trace |-> <<>>, ret |-> FALSE, new_id |-> INVALID_PAGE_ID,
               result |-> <<>>]
        b == NewPageImpl(b0)
    IN  /\ pages = b.pages
        /\ page_table = b.page_table
        /\ free_list = b.free_list
        /\ replacer = b.replacer
        /\ disk = b.disk
        /\ next_page_id = b.next_page_id
        /\ root_page_id = INVALID_PAGE_ID
        /\ leaf_max_size = cfg.leaf_max_size
        /\ internal_max_size = cfg.internal_max_size
        /\ status = "ok"
        /\ kv = <<>>
        /\ hist = NoHist({})
        /\ nops = 0
        /\ latch = 0
        /\ mtx = 0
        /\ thr = <<>>
        /\ born = <<>>
        /\ gone = {}

TreeNext ==
  \/ \E key \in Keys : \E value \in Rids(key) : Insert(key, value)
  \/ \E key \in Keys : Remove(key)
  \/ \E key \in Keys : GetValue(key)

TreeSpec == TreeInit /\ [][TreeNext]_vars

(* ---- round trip: a client inserts distinct keys, then removes them all ---- *)
\* keys in one round trip
MaxRound == 4

\* the client is still inserting when every operation so far added a key
Inserting == nops = Cardinality(DOMAIN kv)

RoundInsert(key, value) ==
  /\ status = "ok"
  /\ Inserting
  /\ key \notin DOMAIN kv
  /\ Cardinality(DOMAIN kv) < MaxRound
  /\ \E m \in {BPlusTreeInsert(Cur, key, value)} :
       /\ Install(m)
       /\ gone' = gone \cup Deallocated(m.trace)
       /\ kv' = IF Ok(m) THEN MapPut(kv, key, value) ELSE kv
  /\ nops' = nops + 1
  /\ UNCHANGED <<leaf_max_size, internal_max_size, hist>>
  /\ SingleClient

RoundRemove(key) ==
  /\ status = "ok"
  /\ key \in DOMAIN kv
  /\ \E m \in {BPlusTreeRemove(Cur, key)} :
       /\ Install(m)
       /\ gone' = gone \cup Deallocated(m.trace)
       /\ kv' = IF Ok(m) THEN MapRemove(kv, key) ELSE kv
  /\ nops' = nops + 1
  /\ UNCHANGED <<leaf_max_size, internal_max_size, hist>>
  /\ SingleClient

RoundNext ==
  \/ \E key \in Keys : \E value \in Rids(key) : RoundInsert(key, value)
  \/ \E key \in Keys : RoundRemove(key)

RoundTripSpec == TreeInit /\ [][RoundNext]_vars

(* ---------- replacer specification: one client of an LRUReplacer ---------- *)
\* largest frame id the client names, and the calls it makes
MaxFrame == 3
MaxCalls == 7

Frames == 0..MaxFrame

\* born is the client's record of the members: frame -> number of the Unpin
\* call that inserted it
Called ==
  /\ nops < MaxCalls
  /\ nops' = nops + 1
  /\ UNCHANGED <<pages, page_table, free_list, disk, next_page_id, root_page_id,
                 leaf_max_size, internal_max_size, status, kv, hist, latch, mtx, thr, gone>>

LRUVictim ==
  /\ \E v \in {ReplacerVictim(replacer)} :
       /\ replacer' = v.r
       /\ born' = IF v.ok THEN MapRemove(born, v.frame_id) ELSE born
  /\ Called

LRUPin(frame_id) ==
  /\ replacer' = ReplacerPin(replacer, frame_id)
  /\ born' = MapRemove(born, frame_id)
  /\ Called

LRUUnpin(frame_id) ==
  /\ replacer' = ReplacerUnpin(replacer, frame_id)
  /\ born' = IF frame_id \in DOMAIN born THEN born ELSE MapPut(born, frame_id, nops)
  /\ Called

ReplacerNext ==
  \/ LRUVictim
  \/ \E frame_id \in Frames : LRUPin(frame_id)
  \/ \E frame_id \in Frames : LRUUnpin(frame_id)

ReplacerSpec == InitPool({}) /\ [][ReplacerNext]_vars

(* ------------- threads: several clients of one LRUReplacer ------------- *)
\* threads, and the calls they make between them
NThreads == 2
MaxThreadCalls == 4

Threads == 1..NThreads

\* thr holds the threads that are inside a call; a thread that is not in
\* thr is between calls
Pc(t) == IF t \in DOMAIN thr THEN thr[t].pc ELSE "idle"
Enter(t, rec) == thr' = MapPut(thr, t, rec)
Goto(t, pc) == thr' = [thr EXCEPT ![t].pc = pc]
Return(t) == thr' = MapRemove(thr, t)

ReplacerOnly ==
  UNCHANGED <<pages, page_table, free_list, disk, next_page_id, root_page_id,
              leaf_max_size, internal_max_size, status, kv, hist, latch, born, gone>>

\* a thread calls Victim, Pin or Unpin and comes to mtx.lock()
RCall(t, op, frame_id) ==
  /\ Pc(t) = "idle"
  /\ nops < MaxThreadCalls
  /\ nops' = nops + 1
  /\ Enter(t, [pc |-> "lock", op |-> op, frame_id |-> frame_id])
  /\ UNCHANGED <<replacer, mtx>>
  /\ ReplacerOnly

\* mtx.lock()
RLock(t) ==
  /\ Pc(t) = "lock"
  /\ mtx = 0
  /\ mtx' = t
  /\ Goto(t, "list")
  /\ UNCHANGED <<replacer, nops>>
  /\ ReplacerOnly

\* the test of the list and, unless the call returns at once (mtx.unlock();
\* return), the change of the list: pop, remove or add
RList(t) ==
  /\ Pc(t) = "list"
  /\ \E q \in {replacer.LRUQueue}, f \in {thr[t].frame_id} :
       IF \/ thr[t].op = "Victim" /\ QueueIsEmpty(q)
          \/ thr[t].op = "Pin" /\ ~QueueContains(q, f)
          \/ thr[t].op = "Unpin" /\ QueueContains(q, f)
         THEN /\ mtx' = 0
              /\ Return(t)
              /\ UNCHANGED replacer
         ELSE /\ replacer' = [replacer EXCEPT !.LRUQueue =
                                IF thr[t].op = "Victim" THEN QueuePop(q)
                                ELSE IF thr[t].op = "Pin" THEN QueueRemove(q, f)
                                ELSE QueueAdd(q, f)]
              /\ Goto(t, "size")
              /\ UNCHANGED mtx
  /\ UNCHANGED nops
  /\ ReplacerOnly

\* size-- or size++
RSizeStep(t) ==
  /\ Pc(t) = "size"
  /\ replacer' = [replacer EXCEPT !.size = IF thr[t].op = "Unpin" THEN @ + 1 ELSE @ - 1]
  /\ Goto(t, "unlock")
  /\ UNCHANGED <<mtx, nops>>
  /\ ReplacerOnly

\* mtx.unlock(); return
RUnlock(t) ==
  /\ Pc(t) = "unlock"
  /\ mtx' = 0
  /\ Return(t)
  /\ UNCHANGED <<replacer, nops>>
  /\ ReplacerOnly

\* Size(): return size, without mtx; the thread keeps the value it read
RSize(t) ==
  /\ Pc(t) \in {"idle", "sized"}
  /\ nops < MaxThreadCalls
  /\ nops' = nops + 1
  /\ Enter(t, [pc |-> "sized", op |-> "Size", ret |-> ReplacerSize(replacer)])
  /\ UNCHANGED <<replacer, mtx>>
  /\ ReplacerOnly

\* the caller of Size goes on
RSized(t) ==
  /\ Pc(t) = "sized"
  /\ Return(t)
  /\ UNCHANGED <<replacer, mtx, nops>>
  /\ ReplacerOnly

ReplacerThreadsNext ==
  \E t \in Threads :
    \/ \E op \in {"Victim", "Pin", "Unpin"}, frame_id \in 0..1 : RCall(t, op, frame_id)
    \/ RLock(t)
    \/ RList(t)
    \/ RSizeStep(t)
    \/ RUnlock(t)
    \/ RSize(t)
    \/ RSized(t)

ReplacerThreadsSpec == InitPool({}) /\ [][ReplacerThreadsNext]_vars

(* ---- an index on a pool whose other frames a second client keeps pinned ---- *)
\* frames of the pool and operations of the two clients
HeldPoolSize == 3
MaxHeldOps == 5

\* another client of the buffer pool allocates a page and keeps its pin
ClientNewPage ==
  /\ status = "ok"
  /\ nops < MaxHeldOps
  /\ \E m \in {NewPageImpl(Cur)} :
       /\ m.ret # nullptr
       /\ Install(m)
       /\ gone' = gone \cup Deallocated(m.trace)
  /\ kv' = kv
  /\ Issued

HeldInit ==
  \E b \in {NewPageImpl([pages |-> [f \in 0..(HeldPoolSize - 1) |-> NewFrame],
                         page_table |-> <<>>,
                         free_list |-> [i \in 1..HeldPoolSize |-> i - 1],
                         replacer |-> NewReplacer, disk |-> <<>>, next_page_id |-> 0,
                         root_page_id |-> INVALID_PAGE_ID, status |-> "ok",
                         trace |-> <<>>, ret |-> FALSE, new_id |-> INVALID_PAGE_ID,
                         result |-> <<>>])} :
    /\ pages = b.pages
    /\ page_table = b.page_table
    /\ free_list = b.free_list
    /\ replacer = b.replacer
    /\ disk = b.disk
    /\ next_page_id = b.next_page_id
    /\ root_page_id = INVALID_PAGE_ID
    /\ leaf_max_size = 3
    /\ internal_max_size = 3
    /\ status = "ok"
    /\ kv = <<>>
    /\ hist = NoHist({})
    /\ nops = 0
    /\ latch = 0
    /\ mtx = 0
    /\ thr = <<>>
    /\ born = <<>>
    /\ gone = {}

HeldNext ==
  \/ \E key \in Keys : \E value \in Rids(key) : nops < MaxHeldOps /\ Insert(key, value)
  \/ \E key \in Keys : nops < MaxHeldOps /\ Remove(key)
  \/ \E key \in Keys : nops < MaxHeldOps /\ GetValue(key)
  \/ ClientNewPage

HeldSpec == HeldInit /\ [][HeldNext]_vars

(* -------------- a disk provider whose read_page can fail --------------- *)
\* FetchPageImpl when disk_manager_->ReadPage raises the provider's error:
\* the statements before the call have run, the ones after it have not
FetchPageImplThrows(b, page_id) ==
  LET v == FindReplacement(b)
  IN  IF page_id \in DOMAIN b.page_table \/ ~v.ok
        THEN FetchPageImpl(b, page_id)
        ELSE Fail(Log([v.b EXCEPT !.page_table = TableInsert(@, page_id, v.frame_id),
                                  !.ret = nullptr],
                      <<"ReadPage", page_id>>), "io")

\* the error leaves FetchPageImpl at the ReadPage call, past latch_.lock()
\* and before latch_.unlock()
FetchPageFails(page_id) ==
  /\ status = "ok"
  /\ latch = 0
  /\ page_id \notin DOMAIN page_table
  /\ FindReplacement(Cur).ok
  /\ Install(FetchPageImplThrows(Cur, page_id))
  /\ latch' = 1
  /\ UNCHANGED <<kv, hist, leaf_max_size, internal_max_size, nops, mtx, thr, born, gone>>

DiskFailNext ==
  \/ \E page_id \in PageIds : FetchPage(page_id)
  \/ \E page_id \in PageIds, is_dirty \in BOOLEAN : UnpinPage(page_id, is_dirty)
  \/ NewPage
  \/ \E page_id \in PageIds : FetchPageFails(page_id)

DiskFailSpec == Init /\ [][DiskFailNext]_vars

(* ----------- threads: several clients of one BufferPoolManager ---------- *)
\* page ids the threads name, the calls they make between them, and the
\* elements a range-for over a page table that is changed under it may yield
MaxThreadPageId == 1
MaxPoolCalls == 4
MaxStray == 1

ThreadPageIds == 0..MaxThreadPageId

PoolOnly ==
  UNCHANGED <<root_page_id, leaf_max_size, internal_max_size, kv, hist, mtx, born, gone>>

PoolFields == <<pages, page_table, free_list, replacer, disk, next_page_id>>

\* std::mutex::lock returns when no thread holds the mutex
LatchFreeAlways(l) == TRUE
LatchFree(l) == l = 0

\* every return path of an operation runs latch_.unlock() before it returns
UnlockSkipsAbsent(c, res) ==
  IF c.op \in {"Fetch", "New"} /\ res.ret = nullptr THEN latch ELSE 0
Unlock(c, res) == 0

\* FlushAllPagesImpl does not touch latch_ itself
FlushAllEntryLock(l, t) == t
FlushAllEntry(l, t) == l

\* the body of the operation thread record c is in
OpImpl(b, c) ==
  CASE c.op = "Fetch" -> FetchPageImpl(b, c.page_id)
    [] c.op = "Unpin" -> UnpinPageImpl(b, c.page_id, c.is_dirty)
    [] c.op = "New" -> NewPageImpl(b)
    [] c.op = "Delete" -> DeletePageImpl(b, c.page_id)
    [] c.op \in {"Flush", "FlushAll"} -> FlushPageImpl(b, c.page_id)

\* a thread in an operation: what it runs, the state its body computed (res)
\* and, inside FlushAllPagesImpl, the elements the range-for has yet to
\* yield (todo), whether the page table changed under the loop (raced) and
\* how many stray elements such a loop may still yield (left)
Frame(pc, op, page_id, is_dirty) ==
  [pc |-> pc, op |-> op, page_id |-> page_id, is_dirty |-> is_dirty,
   res |-> <<>>, todo |-> {}, raced |-> FALSE, left |-> 0]

\* a thread calls one of the latched operations and comes to latch_.lock()
PCall(t, op, page_id, is_dirty) ==
  /\ status = "ok"
  /\ Pc(t) = "idle"
  /\ nops < MaxPoolCalls
  /\ op = "New" => next_page_id <= MaxThreadPageId
  /\ nops' = nops + 1
  /\ Enter(t, Frame("lock", op, page_id, is_dirty))
  /\ UNCHANGED <<PoolFields, status, latch>>
  /\ PoolOnly

\* latch_.lock()
PLock(t) ==
  /\ status = "ok"
  /\ Pc(t) = "lock"
  /\ LatchFree(latch)
  /\ latch' = t
  /\ Goto(t, "cs")
  /\ UNCHANGED <<PoolFields, status, nops>>
  /\ PoolOnly

\* the body reads the fields of the pool and decides what to store
PBody(t) ==
  /\ status = "ok"
  /\ Pc(t) = "cs"
  /\ thr' = [thr EXCEPT ![t].pc = "mid", ![t].res = <<OpImpl(Cur, thr[t])>>]
  /\ UNCHANGED <<PoolFields, status, latch, nops>>
  /\ PoolOnly

InFlushAll(t) == t \in DOMAIN thr /\ thr[t].op = "FlushAll"

\* the stores of the body, then latch_.unlock() and the return; a change of
\* page_table_ is a change under the range-for of every thread that is in
\* FlushAllPagesImpl
PFinish(t) ==
  /\ status = "ok"
  /\ Pc(t) = "mid"
  /\ \E res \in {thr[t].res[1]} :
       /\ pages' = res.pages
       /\ page_table' = res.page_table
       /\ free_list' = res.free_list
       /\ replacer' = res.replacer
       /\ disk' = res.disk
       /\ next_page_id' = res.next_page_id
       /\ latch' = Unlock(thr[t], res)
       /\ thr' = [u \in DOMAIN thr \ (IF InFlushAll(t) THEN {} ELSE {t}) |->
                    IF u = t THEN [thr[t] EXCEPT !.pc = "iter", !.res = <<>>]
                    ELSE IF InFlushAll(u) /\ res.page_table # page_table
                      THEN [thr[u] EXCEPT !.raced = TRUE]
                    ELSE thr[u]]
  /\ UNCHANGED <<status, nops>>
  /\ PoolOnly

\* FlushAllPagesImpl: the range-for starts on page_table_ with no latch held
PFlushAllCall(t) ==
  /\ status = "ok"
  /\ Pc(t) = "idle"
  /\ nops < MaxPoolCalls
  /\ nops' = nops + 1
  /\ Enter(t, [Frame("iter", "FlushAll", INVALID_PAGE_ID, FALSE)
                 EXCEPT !.todo = DOMAIN page_table, !.left = MaxStray])
  /\ latch' = FlushAllEntry(latch, t)
  /\ UNCHANGED <<PoolFields, status>>
  /\ PoolOnly

\* the range-for yields its next element and calls FlushPageImpl, or ends
PIterNext(t) ==
  /\ status = "ok"
  /\ Pc(t) = "iter"
  /\ ~thr[t].raced
  /\ IF thr[t].todo = {} THEN Return(t)
     ELSE \E p \in thr[t].todo :
            thr' = [thr EXCEPT ![t].pc = "lock", ![t].page_id = p, ![t].todo = @ \ {p}]
  /\ UNCHANGED <<PoolFields, status, latch, nops>>
  /\ PoolOnly

\* the range-for over a page table that another thread changed under it:
\* it yields a stale or stray element, ends, or the process dies
PIterRaced(t) ==
  /\ status = "ok"
  /\ Pc(t) = "iter"
  /\ thr[t].raced
  /\ \/ /\ thr[t].left > 0
        /\ \E p \in ThreadPageIds :
             thr' = [thr EXCEPT ![t].pc = "lock", ![t].page_id = p, ![t].left = @ - 1]
        /\ UNCHANGED status
     \/ Return(t) /\ UNCHANGED status
     \/ status' = "ub" /\ UNCHANGED thr
  /\ UNCHANGED <<PoolFields, latch, nops>>
  /\ PoolOnly

PoolThreadsNext ==
  \E t \in Threads :
    \/ \E page_id \in ThreadPageIds : PCall(t, "Fetch", page_id, FALSE)
    \/ \E page_id \in ThreadPageIds, is_dirty \in BOOLEAN : PCall(t, "Unpin", page_id, is_dirty)
    \/ PCall(t, "New", INVALID_PAGE_ID, FALSE)
    \/ \E page_id \in ThreadPageIds : PCall(t, "Delete", page_id, FALSE)
    \/ \E page_id \in ThreadPageIds : PCall(t, "Flush", page_id, FALSE)
    \/ PLock(t)
    \/ PBody(t)
    \/ PFinish(t)
    \/ PFlushAllCall(t)
    \/ PIterNext(t)
    \/ PIterRaced(t)

PoolThreadsSpec == InitPool({}) /\ [][PoolThreadsNext]_vars

\* fair scheduling: a thread that can take a step takes it, and a thread
\* that finds the latch free again and again gets it
PoolThreadsFair ==
  /\ PoolThreadsSpec
  /\ \A t \in Threads :
       /\ WF_vars(PBody(t)) /\ WF_vars(PFinish(t))
       /\ WF_vars(PIterNext(t)) /\ WF_vars(PIterRaced(t))
       /\ SF_vars(PLock(t))

(* ======================= buffer pool: properties ======================= *)
PinnedCount == Cardinality({f \in DOMAIN pages : pages[f].pin_count > 0})
Resident(f) == \E p \in DOMAIN page_table : page_table[p] = f
InReplacer(f) == QueueContains(replacer.LRUQueue, f)

\* C1: in every state reached by fetch_page, unpin_page, new_page,
\* delete_page and flush_page calls, free-list length + replacer size +
\* number of frames with pin_count > 0 equals pool_size.
C1_FrameAccounting ==
  Len(free_list) + ReplacerSize(replacer) + PinnedCount = Cardinality(DOMAIN pages)

C1_Witness ==
  /\ free_list = <<>>
  /\ ReplacerSize(replacer) = 1
  /\ PinnedCount = Cardinality(DOMAIN pages) - 1
  /\ next_page_id > Cardinality(DOMAIN pages)

\* C2: a frame is in the replacer iff it holds a page of the page table
\* whose pin_count is 0.
C2_ReplacerMembership ==
  \A f \in DOMAIN pages : InReplacer(f) <=> (Resident(f) /\ pages[f].pin_count = 0)

C2_Witness ==
  /\ \E f, g \in DOMAIN pages :
        /\ InReplacer(f) /\ Resident(f) /\ pages[f].pin_count = 0
        /\ ~InReplacer(g) /\ Resident(g) /\ pages[g].pin_count > 0

\* C3: a page with pin_count > 0 stays in the page table, mapped to the same
\* frame, across every step: fetch_page and new_page never evict it and
\* delete_page never removes it.
C3_PinnedStays ==
  [][\A p \in DOMAIN page_table :
        pages[page_table[p]].pin_count > 0
          => (p \in DOMAIN page_table' /\ page_table'[p] = page_table[p])]_vars

\* a pinned page is resident next to a frame that was reused after an eviction
C3_Witness ==
  /\ hist.evicted[0] # <<>>
  /\ free_list = <<>>
  /\ \E p \in DOMAIN page_table : pages[page_table[p]].pin_count > 0

\* in the log of one operation every dirty victim is written, with the bytes
\* of its frame, before its page-table entry is erased and before any page
\* is allocated
WriteBeforeErase(tr) ==
  \A i \in 1..Len(tr) :
    (tr[i][1] = "Victim" /\ tr[i][4]) =>
      \E j \in (i + 1)..Len(tr), k \in (i + 1)..Len(tr) :
        /\ j < k
        /\ tr[j][1] = "WritePage" /\ tr[j][2] = tr[i][3] /\ tr[j][3] = tr[i][5]
        /\ tr[k][1] = "Erase" /\ tr[k][2] = tr[i][3]
        /\ \A a \in 1..Len(tr) : tr[a][1] = "AllocatePage" => a > j

EvictsDirty(tr) == \E i \in 1..Len(tr) : tr[i][1] = "Victim" /\ tr[i][4]

\* C4: in every reachable state, a fetch_page or new_page that evicts a dirty
\* frame calls disk.write_page for the evicted page with the frame's bytes
\* before the page id leaves the page table and before disk.allocate_page.
C4_WriteBackBeforeErase ==
  /\ \A p \in PageIds : WriteBeforeErase(FetchPageImpl(Cur, p).trace)
  /\ WriteBeforeErase(NewPageImpl(Cur).trace)

C4_Witness ==
  /\ EvictsDirty(NewPageImpl(Cur).trace)
  /\ \E p \in PageIds : EvictsDirty(FetchPageImpl(Cur, p).trace)

\* the bytes fetch_page(p) hands out now are the bytes recorded at eviction
FetchReturns(p, bytes) ==
  LET b == FetchPageImpl(Cur, p)
  IN  b.ret # nullptr => b.pages[b.ret].data = bytes

\* C5 as stated: a page that was modified and unpinned with is_dirty=true
\* at some point of a residency, then evicted, is fetched back with exactly
\* the bytes it had when it was evicted.
C5_Original ==
  \A p \in Followed(hist) :
    (p \notin DOMAIN page_table /\ hist.evicted[p] # <<>> /\ hist.evicted[p][1].dirty_unpin)
      => FetchReturns(p, hist.evicted[p][1].bytes)

\* C5 amended: a page that was unpinned with is_dirty=true after its last
\* flush of the residency (or since the residency began), then evicted, is
\* fetched back with exactly the bytes it had when it was evicted.
C5_DirtyRoundTrip ==
  \A p \in Followed(hist) :
    (p \notin DOMAIN page_table /\ hist.evicted[p] # <<>> /\ hist.evicted[p][1].dirty_since_flush)
      => FetchReturns(p, hist.evicted[p][1].bytes)

C5_Witness ==
  /\ 0 \notin DOMAIN page_table
  /\ hist.evicted[0] # <<>>
  /\ hist.evicted[0][1].dirty_since_flush
  /\ hist.evicted[0][1].bytes # ZeroPage
  /\ FetchPageImpl(Cur, 0).ret # nullptr

\* page p is resident with its dirty flag set
DirtyResident(p) == p \in DOMAIN page_table /\ pages[page_table[p]].is_dirty

\* C17: within a residency a page that unpin_page(p, true) marked dirty keeps
\* the flag through later unpin_page(p, false) calls and fetch_page hits until
\* a flush or the eviction; a step that clears the flag of a page that stays
\* resident (new_page did not evict it and hand out its id again) is a flush
\* that has written its bytes to disk
C17_DirtyUntilWriteBack ==
  /\ [](\A p \in Followed(hist) :
          p \in DOMAIN page_table /\ hist.dirty_since_flush[p] => DirtyResident(p))
  /\ [][\A p \in PageIds :
          (/\ DirtyResident(p) /\ p \in DOMAIN page_table' /\ ~DirtyResident(p)'
           /\ ~(NewPage /\ NewPageImpl(Cur).new_id = p))
            => /\ FlushPage(p) \/ FlushAllPages
               /\ disk'[p] = pages[page_table[p]].data]_vars

\* a pinned page that unpin_page(0, true) marked dirty since its last flush
\* keeps the flag through unpin_page(0, false) and the fetch_page hit after it
C17_Witness ==
  /\ 0 \in DOMAIN page_table
  /\ hist.dirty_since_flush[0]
  /\ pages[page_table[0]].pin_count = 1
  /\ pages[page_table[0]].data # ZeroPage
  /\ UnpinPageImpl(Cur, 0, FALSE).ret
  /\ UnpinPageImpl(Cur, 0, FALSE).pages[page_table[0]].is_dirty
  /\ FetchPageImpl(UnpinPageImpl(Cur, 0, FALSE), 0).pages[page_table[0]].is_dirty

\* the page table, frames, free list and replacer of b are those of the state
PoolUntouched(b) ==
  /\ b.page_table = page_table
  /\ b.pages = pages
  /\ b.free_list = free_list
  /\ b.replacer = replacer

\* C18: unpin_page(p, d) returns false and changes nothing when p is not
\* resident or has pin_count <= 0; otherwise it returns true, takes one from
\* pin_count and the frame is in the replacer afterwards exactly when the
\* count reached 0
C18_UnpinContract ==
  \A p \in PageIds, d \in BOOLEAN :
    \E b \in {UnpinPageImpl(Cur, p, d)} :
      IF p \notin DOMAIN page_table \/ pages[page_table[p]].pin_count <= 0
        THEN b.ret = FALSE /\ PoolUntouched(b)
        ELSE \E f \in {page_table[p]} :
               /\ b.ret = TRUE
               /\ b.page_table = page_table
               /\ b.free_list = free_list
               /\ b.pages[f].pin_count = pages[f].pin_count - 1
               /\ \A g \in DOMAIN pages \ {f} : b.pages[g] = pages[g]
               /\ QueueContains(b.replacer.LRUQueue, f) <=> b.pages[f].pin_count = 0
               /\ b.replacer.size = Len(b.replacer.LRUQueue)

\* page 0 is resident with no pin and in the replacer, page 1 holds its last
\* pin, page 2 is not resident: unpin_page refuses 0 and 2 and releases 1
C18_Witness ==
  /\ 0 \in DOMAIN page_table /\ pages[page_table[0]].pin_count = 0
  /\ InReplacer(page_table[0])
  /\ 1 \in DOMAIN page_table /\ pages[page_table[1]].pin_count = 1
  /\ 2 \notin DOMAIN page_table
  /\ ~UnpinPageImpl(Cur, 0, TRUE).ret
  /\ ~UnpinPageImpl(Cur, 2, TRUE).ret
  /\ UnpinPageImpl(Cur, 1, TRUE).ret
  /\ UnpinPageImpl(Cur, 1, TRUE).replacer.size = 2

\* no frame is in the free list or in the replacer
Exhausted == free_list = <<>> /\ ReplacerSize(replacer) = 0

\* b is the state with no disk page allocated and no disk call made
NothingDone(b) ==
  /\ PoolUntouched(b)
  /\ b.next_page_id = next_page_id
  /\ b.disk = disk
  /\ b.trace = <<>>

\* C19: new_page and fetch_page of a non-resident page return nullptr exactly
\* when the free list and the replacer are empty, which is when every frame is
\* pinned; they then change nothing, allocate no page and make no disk call;
\* after an unpin_page that brings a pin count to 0, new_page succeeds
C19_AbsentIffExhausted ==
  /\ Exhausted <=> \A f \in DOMAIN pages : pages[f].pin_count > 0
  /\ \E n \in {NewPageImpl(Cur)} :
       /\ n.ret = nullptr <=> Exhausted
       /\ n.ret = nullptr => NothingDone(n)
  /\ \A p \in PageIds \ DOMAIN page_table :
       \E b \in {FetchPageImpl(Cur, p)} :
         /\ b.ret = nullptr <=> Exhausted
         /\ b.ret = nullptr => NothingDone(b)
  /\ \A p \in DOMAIN page_table, d \in BOOLEAN :
       \E u \in {UnpinPageImpl(Cur, p, d)} :
         u.ret /\ u.pages[page_table[p]].pin_count = 0 => NewPageImpl(u).ret # nullptr

\* every frame is pinned: new_page and fetch_page(2) return nullptr, and
\* new_page succeeds after unpin_page(0) released the last pin of page 0
C19_Witness ==
  /\ Exhausted
  /\ 0 \in DOMAIN page_table /\ pages[page_table[0]].pin_count = 1
  /\ 2 \notin DOMAIN page_table
  /\ NewPageImpl(Cur).ret = nullptr
  /\ FetchPageImpl(Cur, 2).ret = nullptr
  /\ UnpinPageImpl(Cur, 0, FALSE).ret
  /\ NewPageImpl(UnpinPageImpl(Cur, 0, FALSE)).ret # nullptr

\* C20: delete_page(p) returns true and changes nothing when p is not
\* resident, returns false and changes nothing when p is resident and pinned,
\* and otherwise erases p from the page table, resets the frame, takes it out
\* of the replacer, appends it to the free list, calls DeallocatePage(p) and
\* returns true
C20_DeleteContract ==
  \A p \in PageIds :
    \E b \in {DeletePageImpl(Cur, p)} :
      IF p \notin DOMAIN page_table THEN b.ret = TRUE /\ NothingDone(b)
      ELSE IF pages[page_table[p]].pin_count # 0 THEN b.ret = FALSE /\ NothingDone(b)
      ELSE \E f \in {page_table[p]} :
             /\ b.ret = TRUE
             /\ b.page_table = TableErase(page_table, p)
             /\ b.pages[f] = [page_id |-> INVALID_PAGE_ID, pin_count |-> 0,
                              is_dirty |-> FALSE, data |-> ZeroPage]
             /\ \A g \in DOMAIN pages \ {f} : b.pages[g] = pages[g]
             /\ ~QueueContains(b.replacer.LRUQueue, f)
             /\ b.replacer.size = Len(b.replacer.LRUQueue)
             /\ \A g \in DOMAIN pages \ {f} :
                  QueueContains(b.replacer.LRUQueue, g) <=> InReplacer(g)
             /\ b.free_list = Append(free_list, f)
             /\ b.trace = <<<<"DeallocatePage", p>>>>
             /\ b.disk = disk

\* page 0 is resident, dirty and unpinned, page 1 is pinned, page 2 is not
\* resident: delete_page deletes 0, refuses 1 and accepts 2
C20_Witness ==
  /\ 0 \in DOMAIN page_table /\ pages[page_table[0]].pin_count = 0
  /\ pages[page_table[0]].is_dirty /\ pages[page_table[0]].data # ZeroPage
  /\ InReplacer(page_table[0])
  /\ 1 \in DOMAIN page_table /\ pages[page_table[1]].pin_count > 0
  /\ 2 \notin DOMAIN page_table
  /\ DeletePageImpl(Cur, 0).ret /\ 0 \notin DOMAIN DeletePageImpl(Cur, 0).page_table
  /\ ~DeletePageImpl(Cur, 1).ret
  /\ DeletePageImpl(Cur, 2).ret

\* the log holds a write_page of the bytes of page p
Wrote(t, p, bytes) == \E i \in DOMAIN t : t[i] = <<"WritePage", p, bytes>>

\* C21: flush_page(p) of a resident page calls write_page with the frame's
\* bytes whether the dirty flag is set or not, clears the flag and returns
\* true; of a non-resident page it returns false and writes nothing
C21_FlushWritesAlways ==
  \A p \in PageIds :
    \E b \in {FlushPageImpl(Cur, p)} :
      IF p \in DOMAIN page_table
        THEN /\ b.ret = TRUE
             /\ Wrote(b.trace, p, pages[page_table[p]].data)
             /\ b.disk[p] = pages[page_table[p]].data
             /\ ~b.pages[page_table[p]].is_dirty
        ELSE b.ret = FALSE /\ b.trace = <<>> /\ b.disk = disk

\* frames with the dirty flags left out
Undirtied(pp) == [f \in DOMAIN pp |-> [pp[f] EXCEPT !.is_dirty = FALSE]]

\* b differs from the state in dirty flags and disk contents only
FlushOnly(b) ==
  /\ b.page_table = page_table
  /\ b.free_list = free_list
  /\ b.replacer = replacer
  /\ b.next_page_id = next_page_id
  /\ Undirtied(b.pages) = Undirtied(pages)

\* C22: flush_page and flush_all change no pin count, no page-table entry,
\* not the free list, not the replacer (members and order) and no frame's
\* bytes: they change dirty flags and the disk only
C22_FlushKeepsPool ==
  /\ \A p \in PageIds : FlushOnly(FlushPageImpl(Cur, p))
  /\ FlushOnly(FlushAllPagesImpl(Cur))

\* page 0 is dirty, pinned and differs from its disk copy, page 1 waits in
\* the replacer: flush_page(0) and flush_all write page 0 and clear its flag
C22_Witness ==
  /\ 0 \in DOMAIN page_table /\ pages[page_table[0]].is_dirty
  /\ pages[page_table[0]].pin_count > 0
  /\ pages[page_table[0]].data # disk[0]
  /\ 1 \in DOMAIN page_table /\ InReplacer(page_table[1])
  /\ FlushPageImpl(Cur, 0).disk[0] = pages[page_table[0]].data
  /\ ~FlushPageImpl(Cur, 0).pages[page_table[0]].is_dirty
  /\ FlushAllPagesImpl(Cur).disk[0] = pages[page_table[0]].data

\* the frames of a free list or replacer queue, and lists without repetition
FramesOf(q) == {q[i] : i \in DOMAIN q}
NoRepeat(q) == \A i, j \in DOMAIN q : q[i] = q[j] => i = j

\* C29: no two page ids map to the same frame, the frame of every page-table
\* entry records that page id, no frame of the free list is the target of an
\* entry, and no frame is twice in the free list or in both the free list and
\* the replacer
C29_PageTableConsistent ==
  /\ \A p, q \in DOMAIN page_table : page_table[p] = page_table[q] => p = q
  /\ \A p \in DOMAIN page_table : pages[page_table[p]].page_id = p
  /\ \A p \in DOMAIN page_table : page_table[p] \notin FramesOf(free_list)
  /\ NoRepeat(free_list)
  /\ FramesOf(free_list) \cap FramesOf(replacer.LRUQueue) = {}

\* frame 0 came back to the free list through delete_page while page 1 waits
\* in the replacer in frame 1
C29_Witness ==
  /\ free_list = <<0>>
  /\ DOMAIN page_table = {1}
  /\ page_table[1] = 1
  /\ InReplacer(1)
  /\ pages[0] = NewFrame

(* ========================= replacer: properties ======================== *)
\* the member inserted first
Oldest == CHOOSE f \in DOMAIN born : \A g \in DOMAIN born : born[f] <= born[g]

\* the members of B in the order they were inserted
RECURSIVE ByBirth(_)
ByBirth(B) ==
  IF DOMAIN B = {} THEN <<>>
  ELSE LET f == CHOOSE x \in DOMAIN B : \A g \in DOMAIN B : B[x] <= B[g]
       IN  <<f>> \o ByBirth(MapRemove(B, f))

\* the frames successive Victim calls return until one fails
RECURSIVE Drain(_, _)
Drain(r, n) ==
  IF n = 0 \/ ~ReplacerVictim(r).ok THEN <<>>
  ELSE <<ReplacerVictim(r).frame_id>> \o Drain(ReplacerVictim(r).r, n - 1)

\* C26: after any unpin, pin and victim calls, victim() fails exactly when
\* the replacer has no member, and otherwise removes and returns the member
\* inserted first; successive victims come in the order of insertion
C26_VictimIsOldest ==
  \E v \in {ReplacerVictim(replacer)} :
    /\ ~v.ok <=> DOMAIN born = {}
    /\ ~v.ok => v.r = replacer
    /\ v.ok => /\ v.frame_id = Oldest
               /\ FramesOf(v.r.LRUQueue) = DOMAIN born \ {Oldest}
               /\ v.r.size = replacer.size - 1
    /\ Drain(replacer, MaxFrame + 2) = ByBirth(born)

\* frames 1, 2, 0 were inserted in this order, 0 after a pin took it out:
\* the victims are 1, 2, 0
C26_Witness ==
  /\ DOMAIN born = {0, 1, 2}
  /\ born[1] < born[2] /\ born[2] < born[0]
  /\ born[1] > 0
  /\ ReplacerVictim(replacer).frame_id = 1
  /\ Drain(replacer, 3) = <<1, 2, 0>>

\* C27: Unpin of a member and Pin of a frame that is no member leave the
\* replacer as it is (members, order, size), and size is the number of
\* distinct members
C27_NoOpCalls ==
  /\ \A f \in Frames :
       /\ f \in DOMAIN born => ReplacerUnpin(replacer, f) = replacer
       /\ f \notin DOMAIN born => ReplacerPin(replacer, f) = replacer
  /\ ReplacerSize(replacer) = Cardinality(DOMAIN born)
  /\ FramesOf(replacer.LRUQueue) = DOMAIN born
  /\ NoRepeat(replacer.LRUQueue)

\* members 1 and 2 with 1 the older: Unpin(1) does not promote it, Pin(0)
\* finds nothing to remove
C27_Witness ==
  /\ replacer.LRUQueue = <<2, 1>>
  /\ 0 \notin DOMAIN born
  /\ nops > 3
  /\ ReplacerUnpin(replacer, 1).LRUQueue = <<2, 1>>
  /\ ReplacerPin(replacer, 0).size = 2

\* thread u has changed the list and not yet the size counter
PartWay(u) == Pc(u) = "size"

\* C28: Victim, Pin, Unpin and Size run with the mutex of the replacer held:
\* no thread reads the size counter while another thread is part-way through
\* changing the list and the counter
C28_SizeUnderMutex ==
  [][\A t \in Threads : RSize(t) => ~\E u \in Threads \ {t} : PartWay(u)]_vars

(* ---------------------- threads on the buffer pool ---------------------- *)
\* between latch_.lock() and latch_.unlock()
Inside(t) == Pc(t) \in {"cs", "mid"}

\* what an operation leaves in the pool and on the disk, and what it returns
PoolOf(b) ==
  <<b.pages, b.page_table, b.free_list, b.replacer, b.disk, b.next_page_id, b.ret>>

\* C23: with several threads calling the latched operations, no two threads
\* are between latch_.lock() and latch_.unlock() at once, what a thread
\* stores is the result of its operation on the state the pool is in when
\* it stores (each change is a step of a sequential run), and frame
\* accounting and replacer membership hold whenever the latch is free.
C23_LatchLinearizes ==
  /\ \A t, u \in Threads : Inside(t) /\ Inside(u) => t = u
  /\ \A t \in Threads : Inside(t) => latch = t
  /\ \A t \in Threads :
       Pc(t) = "mid" => PoolOf(thr[t].res[1]) = PoolOf(OpImpl(Cur, thr[t]))
  /\ latch = 0 => C1_FrameAccounting /\ C2_ReplacerMembership

C23_Witness ==
  \E t, u \in Threads :
    /\ Pc(t) = "mid" /\ thr[t].op = "Unpin" /\ thr[t].res[1].ret = TRUE
    /\ Pc(u) = "lock" /\ thr[u].op = "Fetch"
    /\ ReplacerSize(thr[t].res[1].replacer) = 1

\* C24: while a thread is in flush_all, no step changes the page table.
C24_FlushAllHoldsLatch ==
  [][(\E t \in Threads : InFlushAll(t) /\ InFlushAll(t)') => page_table' = page_table]_vars

\* C25: the latch is free whenever no thread is between lock and unlock, a
\* thread never waits for a latch it holds itself, and under fair
\* scheduling a thread waiting at latch_.lock() gets the latch (unless the
\* process has died).
C25_LatchReleased ==
  /\ []((\A t \in Threads : ~Inside(t)) => latch = 0)
  /\ [](\A t \in Threads : Pc(t) = "lock" => latch # t)
  /\ \A t \in Threads : (Pc(t) = "lock") ~> (latch = t \/ status # "ok")

C25_Witness ==
  \E t, u \in Threads :
    /\ Pc(t) = "mid" /\ thr[t].op = "New" /\ thr[t].res[1].ret = nullptr
    /\ Pc(u) = "lock" /\ latch = t

\* operation result b took the head of the free list and evicted nothing
TookFreeHead(b) ==
  /\ b.ret = Head(free_list)
  /\ b.free_list = Tail(free_list)
  /\ b.replacer = replacer
  /\ \A i \in 1..Len(b.trace) : b.trace[i][1] \notin {"Victim", "Erase", "WritePage"}
  /\ \A p \in DOMAIN page_table : p \in DOMAIN b.page_table /\ b.page_table[p] = page_table[p]

\* C35: while the free list is non-empty, fetch_page of a non-resident page
\* and new_page take the frame at the head of the free list, never call
\* replacer.victim and evict no resident page.
C35_FreeListFirst ==
  free_list # <<>> =>
    /\ \A page_id \in PageIds \ DOMAIN page_table : TookFreeHead(FetchPageImpl(Cur, page_id))
    /\ TookFreeHead(NewPageImpl(Cur))

C35_Witness ==
  /\ free_list # <<>>
  /\ ReplacerSize(replacer) > 0
  /\ \E p \in DOMAIN page_table : pages[page_table[p]].is_dirty /\ pages[page_table[p]].pin_count = 0

\* C31: when read_page fails in fetch_page of a non-resident page, the page
\* id is not in the page table afterwards, no pin count has changed, every
\* frame is still counted by the free list, the replacer or a pin, and the
\* latch is free.
C31_ReadFailureConsistent ==
  [][\A page_id \in PageIds :
       FetchPageFails(page_id) =>
         /\ page_id \notin DOMAIN page_table'
         /\ \A f \in DOMAIN pages : pages'[f].pin_count = pages[f].pin_count
         /\ C1_FrameAccounting'
         /\ latch' = 0]_vars

(* ============================ index: properties ======================== *)
Inserted(k) == k \in DOMAIN kv

\* the bytes of page p as the next fetch of it reads them
PageBytes(p) ==
  IF p \in DOMAIN page_table THEN pages[page_table[p]].data ELSE DiskReadPage(Cur, p)

\* no tree is higher than the operations issued
MaxHeight == MaxOps + 1

RECURSIVE SubtreePages(_, _)
SubtreePages(p, n) ==
  LET d == PageBytes(p)
  IN  IF n = 0 \/ ~IsTreePage(d) \/ IsLeafPage(d) THEN {p}
      ELSE {p} \cup UNION {SubtreePages(d.array[i][2], n - 1) : i \in 1..d.size}

RECURSIVE SubtreeKeys(_, _)
SubtreeKeys(p, n) ==
  LET d == PageBytes(p)
  IN  IF n = 0 \/ ~IsTreePage(d) THEN {}
      ELSE IF IsLeafPage(d) THEN {d.array[i][1] : i \in 1..d.size}
      ELSE UNION {SubtreeKeys(d.array[i][2], n - 1) : i \in 1..d.size}

TreePages == IF root_page_id = INVALID_PAGE_ID THEN {} ELSE SubtreePages(root_page_id, MaxHeight)
InternalPages == {p \in TreePages : PageBytes(p).page_type = "INTERNAL_PAGE"}
Height(p) == Cardinality({q \in TreePages : p \in SubtreePages(q, MaxHeight)})

PinCountOf(p) == IF p \in DOMAIN page_table THEN pages[page_table[p]].pin_count ELSE 0

\* C6: on a non-empty index GetValue(k) returns true, with the record id of
\* the last successful Insert(k, v), exactly for the keys whose last successful
\* Insert was not followed by a Remove
C6_GetValueMatchesHistory ==
  (status = "ok" /\ ~IsEmpty(Cur)) =>
    \A k \in Keys :
      LET g == BPlusTreeGetValue(Cur, k)
      IN  /\ Ok(g)
          /\ g.ret = Inserted(k)
          /\ g.ret => g.result = <<kv[k]>>

GetValueReturnsFalse(k) ==
  LET g == BPlusTreeGetValue(Cur, k) IN Ok(g) /\ g.ret = FALSE

\* C7: when Remove(k) of a key in the index has returned, the next GetValue(k)
\* returns false
C7_RemovedKeyNotFound ==
  [][\A k \in Keys :
       (Inserted(k) /\ Remove(k) /\ status' = "ok") => GetValueReturnsFalse(k)']_vars

\* C8: an operation of the index leaves the pin count of every page as it
\* found it
C8_PinsBalanced ==
  [][status' = "ok" =>
       \A p \in DOMAIN page_table \cup DOMAIN page_table' : PinCountOf(p)' = PinCountOf(p)]_vars

\* C9: in every internal page the keys under value[i-1] are below key[i] and
\* the keys under value[i] are at or above it
C9_SeparatorOrdering ==
  status = "ok" =>
    \A p \in InternalPages :
      LET d == PageBytes(p)
      IN  \A i \in 1..(d.size - 1) :
            /\ \A k \in SubtreeKeys(ValueAt(d, i - 1), MaxHeight) : k < KeyAt(d, i)
            /\ \A k \in SubtreeKeys(ValueAt(d, i), MaxHeight) : KeyAt(d, i) <= k

\* C10: every page but the root holds at least ceil((max_size - 1) / 2)
\* entries when it is a leaf, ceil(max_size / 2) when it is internal, and at
\* most max_size
C10_SizeBounds ==
  status = "ok" =>
    \A p \in TreePages \ {root_page_id} :
      LET d == PageBytes(p)
      IN  /\ IsTreePage(d)
          /\ d.size <= d.max_size
          /\ IsLeafPage(d) => d.size >= d.max_size \div 2
          /\ ~IsLeafPage(d) => d.size >= (d.max_size + 1) \div 2

\* a tree of height 3 whose non-root internal page holds its minimum, after a
\* page was merged away
C10_Witness ==
  /\ status = "ok"
  /\ \E p \in InternalPages \ {root_page_id} :
       PageBytes(p).size = (PageBytes(p).max_size + 1) \div 2
  /\ \E q \in TreePages \ (InternalPages \cup {root_page_id}) :
       PageBytes(q).size = PageBytes(q).max_size \div 2
  /\ next_page_id - 1 > Cardinality(TreePages)

\* the keys of S in ascending order
RECURSIVE SortedKeys(_)
SortedKeys(S) ==
  IF S = {} THEN <<>>
  ELSE LET k == CHOOSE x \in S : \A y \in S : x <= y
       IN  <<k>> \o SortedKeys(S \ {k})

\* the leaf a descent along value[0] ends in
RECURSIVE LeftmostLeaf(_, _)
LeftmostLeaf(p, n) ==
  LET d == PageBytes(p)
  IN  IF n = 0 \/ ~IsTreePage(d) \/ IsLeafPage(d) \/ d.size = 0 THEN p
      ELSE LeftmostLeaf(ValueAt(d, 0), n - 1)

\* the keys met following next_page_id from leaf p through at most n leaves
RECURSIVE ChainKeys(_, _)
ChainKeys(p, n) ==
  LET d == PageBytes(p)
  IN  IF n = 0 \/ p = INVALID_PAGE_ID \/ ~IsLeafPage(d) THEN <<>>
      ELSE [i \in 1..d.size |-> d.array[i][1]] \o ChainKeys(d.next_page_id, n - 1)

\* no chain of leaves is longer than the pages allocated
MaxScan == 2 * MaxOps + 2

\* for (it = begin(); it != end(); ++it) out.push_back((*it).first): result is out
RECURSIVE ScanFrom(_, _, _, _)
ScanFrom(m, it, out, n) ==
  IF ~Ok(m) THEN m
  ELSE IF n = 0 THEN Fail(m, "hang")
  ELSE Do([c \in {IndexIteratorCompare(m, it, end, FALSE)} |->
         IF ~Ok(c) THEN c
         ELSE IF ~c.ret THEN [c EXCEPT !.result = out]
         ELSE Do([x \in {IndexIteratorDeref(c, it)} |->
                Do([y \in {IndexIteratorIncrement(x, it)} |->
                  IF ~Ok(y) THEN y
                  ELSE ScanFrom(y, y.ret, Append(out, x.result[1][1]), n - 1)])])])

Scan(m) ==
  Do([b \in {begin(m)} |-> IF ~Ok(b) THEN b ELSE ScanFrom(b, b.ret, <<>>, MaxScan)])

\* C11: between operations of the index the leaves linked by next_page_id
\* from the leftmost leaf hold, in strictly increasing order, exactly the keys
\* in the index, and the iteration from begin() to end() yields them
C11_LeafChainSorted ==
  status = "ok" =>
    /\ ChainKeys(LeftmostLeaf(root_page_id, MaxHeight), MaxScan) = SortedKeys(DOMAIN kv)
    /\ Ok(Scan(Cur))
    /\ Scan(Cur).result = SortedKeys(DOMAIN kv)

\* the root page id the header page records for the index name, <<>> if none
HeaderRootId == HeaderRecords(PageBytes(HEADER_PAGE_ID))

\* C12: once the index has a record in the header page or a root, the root
\* page id recorded in the header page is the in-memory root_page_id between
\* operations, also after Remove emptied the tree and Insert started a new one
C12_HeaderMatchesRoot ==
  status = "ok" /\ (HeaderRootId # <<>> \/ root_page_id # INVALID_PAGE_ID)
    => HeaderRootId = <<root_page_id>>

\* C13: when a client has inserted distinct keys in some order and then
\* removed every one of them in some order, the tree is empty:
\* root_page_id is INVALID_PAGE_ID
C13_RoundTripEmpty ==
  status = "ok" /\ nops > 0 /\ kv = <<>> => IsEmpty(Cur)

\* the bytes of page p in m as the next fetch of it reads them
BytesIn(m, p) ==
  IF p \in DOMAIN m.page_table THEN m.pages[m.page_table[p]].data ELSE DiskReadPage(m, p)

\* a record id that no Insert of the client stored under key
OtherRid(key) == 10 * (MaxValue + 1) + key

\* C14: Insert(k, v2) for a key k that was inserted and not removed returns
\* false and leaves root_page_id and the bytes of every page (keys, values,
\* structure) as they were
C14_DuplicateInsertNoChange ==
  status = "ok" =>
    \A k \in DOMAIN kv :
      \E m \in {BPlusTreeInsert(Cur, k, OtherRid(k))} :
        /\ Ok(m)
        /\ m.ret = FALSE
        /\ m.root_page_id = root_page_id
        /\ \A p \in DOMAIN m.page_table \cup DOMAIN m.disk
                    \cup DOMAIN page_table \cup DOMAIN disk :
             BytesIn(m, p) = PageBytes(p)

\* the unpin_page calls of a log and the stores into page bytes
IsUnpin(e) == e[1] = "UnpinPage"
IsWrite(e) == e[1] = "Write"
IsDeallocate(e) == e[1] = "DeallocatePage"

\* in the log of one operation: the bytes of a tree page that were changed are
\* released with is_dirty = true afterwards (or the page is deleted), and a
\* release with is_dirty = true follows a change of the page's bytes
DirtyIffModified(t) ==
  /\ \A i \in DOMAIN t :
       IsWrite(t[i]) /\ t[i][2] # HEADER_PAGE_ID =>
         \E j \in (i + 1)..Len(t) :
           \/ IsUnpin(t[j]) /\ t[j][2] = t[i][2] /\ t[j][3]
           \/ IsDeallocate(t[j]) /\ t[j][2] = t[i][2]
  /\ \A j \in DOMAIN t :
       IsUnpin(t[j]) /\ t[j][2] # HEADER_PAGE_ID /\ t[j][3] =>
         \E i \in 1..(j - 1) : IsWrite(t[i]) /\ t[i][2] = t[j][2]

\* C15: an operation of the index releases a tree page with is_dirty = true
\* exactly when it changed the bytes of that page, the leaf Remove deleted
\* from included
C15_DirtyIffModified ==
  status = "ok" =>
    \A key \in Keys :
      /\ \E m \in {BPlusTreeRemove(Cur, key)} : Ok(m) => DirtyIffModified(m.trace)
      /\ \E m \in {BPlusTreeInsert(Cur, key, OtherRid(key))} : Ok(m) => DirtyIffModified(m.trace)
      /\ \E m \in {BPlusTreeGetValue(Cur, key)} : Ok(m) => DirtyIffModified(m.trace)

\* the pin count of page p in m
PinIn(m, p) == IF p \in DOMAIN m.page_table THEN m.pages[m.page_table[p]].pin_count ELSE 0

\* C16: the iterator begin() returns on a non-empty index holds one pin on
\* its leaf, and still holds exactly that pin after a dereference and after a
\* comparison with end()
C16_IteratorHoldsOnePin ==
  status = "ok" /\ ~IsEmpty(Cur) =>
    \E b \in {begin(Cur)} :
      Ok(b) /\ ~isEnd(b.ret) =>
        \E leaf \in {b.pages[b.ret.curr_page_].page_id} :
          /\ PinIn(b, leaf) = PinCountOf(leaf) + 1
          /\ \E x \in {IndexIteratorDeref(b, b.ret)} :
               Ok(x) /\ PinIn(x, leaf) = PinCountOf(leaf) + 1
          /\ \E c \in {IndexIteratorCompare(b, b.ret, end, FALSE)} :
               Ok(c) /\ c.ret /\ PinIn(c, leaf) = PinCountOf(leaf) + 1


\* C30: no operation on a non-empty index goes on through a page that
\* fetch_page or new_page did not return: when all frames are pinned the
\* operation ends with the out-of-memory failure.
C30_AbsentIsOutOfMemory ==
  [][root_page_id # INVALID_PAGE_ID => status' \in {"ok", "oom"}]_vars


\* page p is referenced from slot i of internal page q under key k
SlotOf(q, p, k) ==
  \E d \in {PageBytes(q)} : \E i \in 0..(d.size - 1) : ValueAt(d, i) = p /\ KeyAt(d, i) = k

\* leaf l was split into l and the new page n, which follows it
SplitInTwo(l, n, old_next) ==
  \E d \in {PageBytes(l)}, r \in {PageBytes(n)} :
    /\ IsLeafPage(d) /\ IsLeafPage(r)
    /\ d.size = leaf_max_size \div 2
    /\ r.size = leaf_max_size - (leaf_max_size \div 2)
    /\ d.next_page_id = n
    /\ r.next_page_id = old_next
    /\ \E q \in InternalPages : SlotOf(q, n, KeyAt(r, 0))

\* C32: an insertion of a new key splits the leaf it goes to exactly when
\* the leaf's size becomes max_size; the split leaves floor(max_size / 2)
\* entries in the leaf and ceil(max_size / 2) in the new page, links the new
\* page after the leaf and before the leaf's old next page, and the parent
\* holds the new page under the new page's first key.
C32_LeafSplit ==
  [][\A key \in Keys : \A value \in Rids(key) :
       (root_page_id # INVALID_PAGE_ID /\ Insert(key, value) /\ status' = "ok") =>
         \E m \in {FindLeafPage(Cur, key, FALSE)} :
           Ok(m) =>
             \E d \in {Data(m, m.ret)} :
               ~LeafLookup(d, key).found =>
                 IF d.size + 1 = leaf_max_size
                   THEN \E l \in {d.page_id}, n \in {next_page_id}, old_next \in {d.next_page_id} :
                          SplitInTwo(l, n, old_next)'
                   ELSE /\ next_page_id' = next_page_id
                        /\ \E l \in {d.page_id} : PageBytes(l)'.size = d.size + 1]_vars

C32_Witness ==
  /\ status = "ok"
  /\ next_page_id >= 4
  /\ \E l \in TreePages : \E d \in {PageBytes(l)} :
       /\ IsLeafPage(d)
       /\ d.next_page_id # INVALID_PAGE_ID
       /\ SplitInTwo(l, d.next_page_id, PageBytes(d.next_page_id).next_page_id)


\* slots 1..size-1 of page p hold strictly increasing keys
KeysIncrease(p) ==
  \E d \in {PageBytes(p)} :
    \A i, j \in 1..(d.size - 1) : i < j => KeyAt(d, i) < KeyAt(d, j)

\* page h holds l and, in the slot right after it, n
RightAfter(h, l, n) ==
  \E d \in {PageBytes(h)} :
    \E i \in 0..(d.size - 2) : ValueAt(d, i) = l /\ ValueAt(d, i + 1) = n

\* internal page p was split into p and q after l's new sibling n was added
ParentSplitInTwo(p, q, l, n) ==
  /\ \E h \in {p, q} : RightAfter(h, l, n)
  /\ KeysIncrease(p) /\ KeysIncrease(q)
  /\ \A k \in SubtreeKeys(q, MaxHeight) : KeyAt(PageBytes(q), 0) <= k
  /\ \A h \in {p, q} : PageBytes(h).size >= GetMinSize(PageBytes(h))

\* the leaf an Insert of key goes to is full after it and so is its parent
SplitsParent(key) ==
  /\ status = "ok"
  /\ root_page_id # INVALID_PAGE_ID
  /\ \E m \in {FindLeafPage(Cur, key, FALSE)} :
       /\ Ok(m)
       /\ \E d \in {Data(m, m.ret)} :
            /\ ~LeafLookup(d, key).found
            /\ d.size + 1 = leaf_max_size
            /\ d.parent_page_id # INVALID_PAGE_ID
            /\ PageBytes(d.parent_page_id).size + 1 > internal_max_size

\* C33: when the insertion of a leaf's new sibling splits the full parent,
\* the new entry lies right after the old leaf's pointer in the half that
\* holds it, the keys of both halves stay strictly increasing, the key at
\* slot 0 of the new half is at most every key under it, and both halves
\* have at least min_size entries.
C33_ParentSplit ==
  [][\A key \in Keys : \A value \in Rids(key) :
       (SplitsParent(key) /\ Insert(key, value) /\ status' = "ok") =>
         \E m \in {FindLeafPage(Cur, key, FALSE)} :
           \E l \in {Data(m, m.ret).page_id}, p \in {Data(m, m.ret).parent_page_id},
              n \in {next_page_id}, q \in {next_page_id + 1} :
             ParentSplitInTwo(p, q, l, n)']_vars


\* the root is an internal page with one child or a leaf without entries
RootToAdjust ==
  /\ root_page_id # INVALID_PAGE_ID
  /\ \E d \in {PageBytes(root_page_id)} :
       \/ d.page_type = "INTERNAL_PAGE" /\ d.size = 1
       \/ IsLeafPage(d) /\ d.size = 0

\* the root is the page it has to be and has no parent
RootAdjusted(new_root) ==
  /\ root_page_id = new_root
  /\ new_root # INVALID_PAGE_ID => PageBytes(new_root).parent_page_id = INVALID_PAGE_ID

\* the root page id is in the header page and page old_root is gone
RootReplaced(old_root) ==
  /\ HeaderRootId = <<root_page_id>>
  /\ old_root \notin DOMAIN page_table

\* C34: a Remove does not leave the root an internal page with one child or
\* an empty leaf; when Remove changes the root, the new root is the only
\* child of the old one with parent_id INVALID_PAGE_ID, or INVALID_PAGE_ID
\* after an empty root leaf, the new root id is in the header page and the
\* old root page is no longer resident.
C34_AdjustRoot ==
  [][\A key \in Keys :
       (Remove(key) /\ status' = "ok") =>
         /\ ~RootToAdjust'
         /\ root_page_id' # root_page_id =>
              \E old_root \in {root_page_id} : RootReplaced(old_root)']_vars


\* the log of an operation holds a fetch of INVALID_PAGE_ID
FetchedInvalid(t) ==
  \E i \in 1..Len(t) : t[i][1] \in {"ReadPage", "Pin"} /\ t[i][2] = INVALID_PAGE_ID

\* C36: from no state between operations, the empty index included, does
\* GetValue, Insert, Remove, begin() or Begin(key) fetch INVALID_PAGE_ID; on
\* the empty index GetValue returns false and Begin(key) the end iterator.
C36_NoInvalidFetch ==
  status = "ok" =>
    \A key \in Keys :
      /\ ~FetchedInvalid(BPlusTreeGetValue(Cur, key).trace)
      /\ ~FetchedInvalid(Begin(Cur, key).trace)
      /\ ~FetchedInvalid(begin(Cur).trace)
      /\ ~FetchedInvalid(BPlusTreeRemove(Cur, key).trace)
      /\ \A value \in Rids(key) : ~FetchedInvalid(BPlusTreeInsert(Cur, key, value).trace)
      /\ IsEmpty(Cur) =>
           /\ \E g \in {BPlusTreeGetValue(Cur, key)} : Ok(g) /\ g.ret = FALSE
           /\ \E b \in {Begin(Cur, key)} : Ok(b) /\ isEnd(b.ret)


\* the slots <<q, i>> of internal pages of the tree that hold page p
SlotsHolding(p) ==
  {s \in InternalPages \X (0..MaxKey + 1) :
     s[2] < PageBytes(s[1]).size /\ ValueAt(PageBytes(s[1]), s[2]) = p}

\* C37: between operations every child of an internal page of the tree has
\* that page as its parent_id, the root has parent_id INVALID_PAGE_ID, and
\* every other page of the tree is held by exactly one slot of one internal
\* page.
C37_ParentPointers ==
  (status = "ok" /\ root_page_id # INVALID_PAGE_ID) =>
    /\ PageBytes(root_page_id).parent_page_id = INVALID_PAGE_ID
    /\ \A p \in InternalPages :
         \E d \in {PageBytes(p)} :
           \A i \in 0..(d.size - 1) : PageBytes(ValueAt(d, i)).parent_page_id = p
    /\ \A p \in TreePages \ {root_page_id} : Cardinality(SlotsHolding(p)) = 1


C37_Witness ==
  /\ status = "ok"
  /\ \E p \in InternalPages \ {root_page_id} :
       \E d \in {PageBytes(p)} :
         /\ d.size >= 2
         /\ \A i \in 0..(d.size - 1) : PageBytes(ValueAt(d, i)).parent_page_id = p
  /\ Cardinality(DOMAIN kv) < nops - 1


\* number of internal pages from page p down to each leaf under it
RECURSIVE Depths(_, _)
Depths(p, n) ==
  LET d == PageBytes(p)
  IN  IF n = 0 \/ ~IsTreePage(d) THEN {-1}
      ELSE IF IsLeafPage(d) THEN {0}
      ELSE {x + 1 : x \in UNION {Depths(d.array[i][2], n - 1) : i \in 1..d.size}}

\* page p has been allocated and is a page of the index
LivePage(p) ==
  /\ p \in 1..(next_page_id - 1)
  /\ p \in DOMAIN page_table \/ p \in DOMAIN disk
  /\ p \notin gone
  /\ IsTreePage(PageBytes(p))
  /\ PageBytes(p).page_id = p

\* C38: between operations every leaf lies under the same number of internal
\* pages, and every page reached from the root is a page of the index that
\* is resident or on disk.
C38_Balanced ==
  (status = "ok" /\ root_page_id # INVALID_PAGE_ID) =>
    /\ Cardinality(Depths(root_page_id, MaxHeight)) = 1
    /\ \A p \in TreePages : LivePage(p)


C38_Witness ==
  /\ status = "ok"
  /\ gone # {}
  /\ root_page_id # INVALID_PAGE_ID
  /\ Depths(root_page_id, MaxHeight) = {1}
  /\ Cardinality(TreePages) >= 3


\* C39: GetValue appends exactly one value to the result vector when it
\* returns true and appends nothing when it returns false
C39_GetValueAppends ==
  (status = "ok" /\ ~IsEmpty(Cur)) =>
    \A k \in Keys :
      \E g \in {BPlusTreeGetValue(Cur, k)} :
        Ok(g) => Len(g.result) = Len(Cur.result) + (IF g.ret THEN 1 ELSE 0)


\* the keys of the index that are not below k
KeysFrom(k) == {x \in DOMAIN kv : x >= k}
SmallestFrom(k) == CHOOSE x \in KeysFrom(k) : \A y \in KeysFrom(k) : x <= y

\* the iterator Begin(k) returned is on a valid entry or is the end iterator
BeginPositioned(g, k) ==
  /\ Ok(g)
  /\ isEnd(g.ret) <=> KeysFrom(k) = {}
  /\ ~isEnd(g.ret) =>
       /\ g.ret.index_ < Data(g, g.ret.curr_page_).size
       /\ \E r \in {IndexIteratorDeref(g, g.ret)} :
            Ok(r) /\ r.result[1][1] = SmallestFrom(k)

\* C40: on a non-empty index Begin(k) is positioned on the entry of the
\* smallest key that is not below k, with a slot below the size of its leaf,
\* and is the end iterator when there is no such key
C40_BeginPositioned ==
  (status = "ok" /\ ~IsEmpty(Cur)) =>
    \A k \in Keys : \E g \in {Begin(Cur, k)} : BeginPositioned(g, k)
====
